---- MODULE Spec2Model ----
(***************************************************************************)
(* Model of the Indygo Pool API client (custom_components/indygo_pool).    *)
(*                                                                         *)
(* The client is an asyncio object: every top-level operation              *)
(* (async_get_data, async_set_filtration_mode) runs until it awaits a      *)
(* network answer.  A state of the model is the client's fields, the       *)
(* position of the running operation (its pending HTTP exchange) and the   *)
(* portal the client talks to.  One action answers the pending exchange    *)
(* and one resumes the operation after request() has returned or raised.   *)
(***************************************************************************)
EXTENDS Integers, Sequences, FiniteSets, TLC

\* ------------------------------------------------------------------ bounds
MaxProgs == 2      \* longest program list the portal holds for the module
MaxGen   == 2      \* distinct sets of identifiers the device page may show
CountCap == 3      \* counters of sends / logins saturate here
MaxLen   == 5      \* longest text given to extract_json_object
MaxModules == 2    \* longest module list of a currentPool object
MaxSetups == 3     \* times the host sets the entry up
MaxCycles == 3     \* refresh cycles that run beside set calls

\* ------------------------------------------------------- program constants
PROGRAM_TYPE_FILTRATION == 4
OK           == 200
FOUND        == 302
UNAUTHORIZED == 401
FORBIDDEN    == 403
SERVER_ERROR == 500
ModeNull     == 3      \* "mode": null  (JSON null / Python None)
ModeAbsent   == 4      \* no "mode" key in programCharacteristics
TypeAbsent   == 0      \* no "programType" key / no programCharacteristics
TypeOther    == 1      \* a programType that is not the filtration type
NoGen        == 0      \* Python None for an identifier

Modes == {0, 1, 2}     \* 0 = OFF, 1 = ON, 2 = AUTO

\* ---------------------------------------------------------------- programs
\* A program object (a dict of the vendor): its "id" ("none" when the key
\* is missing), its dataChanged flag, and the programCharacteristics
\* sub-object (hasChars) with programType and mode.
Prog(id, dc, hc, pt, md) ==
    [id |-> id, dataChanged |-> dc, hasChars |-> hc, programType |-> pt, mode |-> md]

PFilt   == Prog("p1", FALSE, TRUE, PROGRAM_TYPE_FILTRATION, 2)
PFilt2  == Prog("p2", FALSE, TRUE, PROGRAM_TYPE_FILTRATION, 0)
PLight  == Prog("p2", FALSE, TRUE, TypeOther, 1)
PTimer  == Prog("p3", TRUE, TRUE, TypeOther, ModeAbsent)
PBare   == Prog("none", FALSE, FALSE, TypeAbsent, ModeAbsent)

ProgramPool == {PFilt, PFilt2, PLight, PTimer, PBare}

RECURSIVE ListsUpTo(_, _)
ListsUpTo(S, n) ==
    IF n = 0 THEN {<<>>}
    ELSE LET shorter == ListsUpTo(S, n - 1)
         IN  shorter \cup {Append(l, x) : l \in {s \in shorter : Len(s) = n - 1}, x \in S}

\* ------------------------------------------------------------------ portal
\* What the vendor portal holds for module "m1" during one behaviour:
\* whether currentPool.modules lists it (with its name and LoRaWAN-V2
\* flag), whether the embedded program data has an entry for it, and that
\* program list.  reliable = the portal answers every exchange with success.
\* Every program list is explored against a reliable portal, every failure
\* of an exchange against a portal with one of a few fixed lists.
PortalRec(im, nm, lo, hp, pr, rel) ==
    [inModules |-> im, name |-> nm, lora |-> lo, hasProgs |-> hp, progs |-> pr,
     reliable |-> rel]

ReliablePortals ==
    {PortalRec(TRUE, "Pool-1", FALSE, TRUE, pr, TRUE) : pr \in ListsUpTo(ProgramPool, MaxProgs)}
    \cup {PortalRec(FALSE, "", FALSE, TRUE, pr, TRUE) : pr \in ListsUpTo(ProgramPool, MaxProgs)}
    \cup {PortalRec(TRUE, nm, lo, TRUE, <<PLight, PFilt>>, TRUE) :
             nm \in {"", "Pool-1"}, lo \in BOOLEAN}

FlakyPortals ==
    {PortalRec(TRUE, "Pool-1", TRUE, TRUE, <<PLight, PFilt>>, FALSE),
     PortalRec(TRUE, "", FALSE, FALSE, <<>>, FALSE),
     PortalRec(FALSE, "", FALSE, TRUE, <<PFilt>>, FALSE)}

\* ------------------------------------------------------------ object heap
\* Python passes dicts by reference.  A heap maps references to program
\* objects: <<"data", i>> is the i-th program of the cached snapshot's
\* module, <<"scraped", i>> the i-th scraped program, <<"own", 0>> an object
\* only the caller holds, <<"copy", n>> an object allocated by deepcopy.
HeapOf(dataProgs, scrapedProgs, own) ==
    LET refs == {<<"data", i>> : i \in 1..Len(dataProgs)}
                \cup {<<"scraped", i>> : i \in 1..Len(scrapedProgs)}
                \cup {<<"own", 0>>}
    IN  [r \in refs |-> IF r[1] = "data" THEN dataProgs[r[2]]
                        ELSE IF r[1] = "scraped" THEN scrapedProgs[r[2]]
                        ELSE own]

\* Faulty variant of DeepCopy: no copy is made, the original is returned.
AliasCopy(h, r) == [heap |-> h, ref |-> r]

\* copy.deepcopy(obj): a fresh object with the same contents.
DeepCopy(h, r) ==
    LET n == <<"copy", Cardinality(DOMAIN h)>>
    IN  [heap |-> h @@ (n :> h[r]), ref |-> n]

\* obj["programCharacteristics"]["mode"] = m
SetMode(h, r, m) == [h EXCEPT ![r].mode = m]

\* Faulty variant of SetDataChanged: the flag is not set.
SetDataChangedSkip(h, r) == h

\* obj["dataChanged"] = True
SetDataChanged(h, r) == [h EXCEPT ![r].dataChanged = TRUE]

\* Faulty variant of HasCharacteristics: the check is missing.
HasCharacteristicsUnchecked(p) == TRUE

\* "programCharacteristics" in program_copy
HasCharacteristics(p) == p.hasChars

\* Faulty variant of ModeForcedNull: a filtration program loses its mode too.
ModeForcedNullAnyType(prog_copy) ==
    prog_copy.hasChars /\ prog_copy.mode # ModeAbsent

\* prog_type != PROGRAM_TYPE_FILTRATION and "mode" in
\* prog_copy["programCharacteristics"]: the mode of the copy is set to None.
ModeForcedNull(prog_copy) ==
    /\ prog_copy.programType # PROGRAM_TYPE_FILTRATION
    /\ prog_copy.hasChars
    /\ prog_copy.mode # ModeAbsent

\* The loop of async_set_filtration_mode over module_programs: the cached
\* program with the target's id is replaced by program_copy, every other
\* one is deep-copied, flagged, and loses its mode unless it is a
\* filtration program.
RECURSIVE RebuildPrograms(_, _, _, _, _)
RebuildPrograms(h, module_programs, i, updated, copyRef) ==
    IF i > Len(module_programs) THEN [heap |-> h, updated |-> updated]
    ELSE LET prog == module_programs[i] IN
         IF h[prog].id = h[copyRef].id
         THEN RebuildPrograms(h, module_programs, i + 1, Append(updated, copyRef), copyRef)
         ELSE LET c  == DeepCopy(h, prog)
                  h1 == SetDataChanged(c.heap, c.ref)
                  h2 == IF ModeForcedNull(h1[c.ref])
                        THEN SetMode(h1, c.ref, ModeNull)
                        ELSE h1
              IN  RebuildPrograms(h2, module_programs, i + 1, Append(updated, c.ref), copyRef)

\* Steps 1-4 of async_set_filtration_mode, up to the payload: the heap
\* after them, the references of updated_programs and of program_copy, and
\* valid = FALSE when programCharacteristics is missing (the call raises).
BuildPayload(h, full_program_data, m, module_programs) ==
    LET c == DeepCopy(h, full_program_data) IN
    IF ~HasCharacteristics(c.heap[c.ref])
    THEN [valid |-> FALSE, heap |-> c.heap, updated |-> <<>>, copy |-> c.ref]
    ELSE LET h1 == SetDataChanged(SetMode(c.heap, c.ref, m), c.ref)
             rb == RebuildPrograms(h1, module_programs, 1, <<>>, c.ref)
             up == IF \E k \in 1..Len(rb.updated) : rb.heap[rb.updated[k]].id = rb.heap[c.ref].id
                   THEN rb.updated
                   ELSE Append(rb.updated, c.ref)
         IN  [valid |-> TRUE, heap |-> rb.heap, updated |-> up, copy |-> c.ref]

\* json.dumps of a list of program objects: their contents at that moment.
Dump(h, refs) == [k \in 1..Len(refs) |-> h[refs[k]]]


\* ------------------------------------------------------------------- state
VARIABLES
    portal,             \* the vendor portal (environment), fixed in a behaviour
    pool_address,       \* self._pool_address
    device_short_id,    \* self._device_short_id
    relay_id,           \* self._relay_id
    pool_metadata,      \* self._pool_metadata
    scraped_programs,   \* self._scraped_programs
    data,               \* self._data, the last snapshot
    op,                 \* running top-level operation: "none", "refresh", "set"
    pc,                 \* "idle", "await" (exchange pending), "returned", "done"
    req,                \* the logical request in progress
    body,               \* the body request() returned (device page)
    log,                \* kinds of the logical requests issued by the operation
    result,             \* how the operation ended: "none", "ok" or the error raised
    call,               \* arguments and locals of async_set_filtration_mode
    ownProg,            \* a program object only the caller references
    before,             \* programs on the heap when the call started
    submitted,          \* program list sent to program/update
    sent,               \* bodies of the synchronisation requests the call has issued
    status_url,         \* identifiers in the URL of the status GET
    page_ids,           \* identifiers parsed from the page of the running refresh
    primaryOk,          \* both primary writes of the call returned
    syncErr,            \* error caught while synchronising, or "none"
    ipx_module_metadata, \* self._ipx_module_metadata
    discovered,         \* identifiers parse_pool_ids found in the page of the running refresh
    merged,             \* status JSON, metadata and the merged dict handed to parse_data
    host_signal,        \* what the coordinator hands to the host for the refresh
    text,               \* extract_json_object: the text
    start_index,        \* extract_json_object: the start offset (0-based)
    extracted,          \* extract_json_object: the value returned, once called
    html,               \* parse_pool_ids: the device page
    located,            \* parse_pool_ids: what it returned or raised, once called
    scrape_result,      \* how the refresh's scraping of that page ended
    json_data,          \* parse_data: the merged dict
    pool_data,          \* parse_data: the IndygoPoolData returned, once called
    coordinator_data,   \* select entity: coordinator.data
    select,             \* select entity: the running async_select_option and its calls
    sessions,           \* integration: the aiohttp sessions created so far
    entry,              \* integration: the config entry's life cycle
    race                \* a refresh and a set call running side by side

clientVars == <<pool_address, device_short_id, relay_id, pool_metadata, scraped_programs, data>>
extractVars == <<text, start_index, extracted>>
discoveryVars == <<html, located, scrape_result>>
normalizeVars == <<json_data, pool_data>>
selectVars == <<coordinator_data, select>>
setupVars == <<sessions, entry>>
raceVars == <<race>>
idleVars == <<extractVars, discoveryVars, normalizeVars, selectVars, setupVars, raceVars>>
hostVars   == <<ipx_module_metadata, discovered, merged, host_signal>>
callVars   == <<call, ownProg, before, submitted, sent, primaryOk, syncErr>>
refreshVars == <<status_url, page_ids>>
vars == <<portal, pool_address, device_short_id, relay_id, pool_metadata, scraped_programs,
          data, op, pc, req, body, log, result, call, ownProg, before, submitted, sent,
          status_url, page_ids, primaryOk, syncErr, ipx_module_metadata, discovered,
          merged, host_signal, text, start_index, extracted, html, located, scrape_result,
          json_data, pool_data, coordinator_data, select, sessions, entry, race>>
clientSide == <<portal, clientVars, op, pc, req, body, log, result, callVars, refreshVars,
                hostVars>>

ClientErrors == {"ApiClientError", "CommunicationError", "AuthenticationError"}

NoMetadata == [present |-> FALSE, gen |-> NoGen, inModules |-> FALSE, name |-> "", lora |-> FALSE]
NoScraped  == [present |-> FALSE, hasModule |-> FALSE, programs |-> <<>>]
NoData     == [present |-> FALSE, address |-> NoGen, relay_id |-> NoGen, hasModule |-> FALSE,
               name |-> "", lora |-> FALSE, programs |-> <<>>]
NoPage     == [gen |-> NoGen, hasAddr |-> FALSE, hasShort |-> FALSE, hasRelay |-> FALSE,
               login |-> FALSE]
LoginPage  == [gen |-> NoGen, hasAddr |-> FALSE, hasShort |-> FALSE, hasRelay |-> FALSE,
               login |-> TRUE]
NoLast     == [phase |-> "none", kind |-> "none", status |-> 0]
NoReq      == [kind |-> "none", phase |-> "none", return_json |-> FALSE, nSend |-> 0,
               nLogin |-> 0, all401 |-> FALSE, outcome |-> "none", last |-> NoLast,
               errMsg |-> <<>>]
NoCall     == [module_id |-> "", mode |-> 0, target |-> <<"own", 0>>, updated |-> <<>>,
               copy |-> PBare, module_name |-> ""]
NoBefore   == [dataProgs |-> <<>>, scrapedProgs |-> <<>>, passed |-> PBare]
NoDiscovered == [parsed |-> FALSE, pool_address |-> NoGen, device_short_id |-> NoGen,
                 relay_id |-> NoGen]
NoIpx      == "empty"      \* None or {}: no IPX metadata
NoMerged   == [present |-> FALSE, json |-> <<>>, metadata |-> <<>>, out |-> <<>>]

\* extract_json_object: None, a returned string, and not called yet.
NotFound == [found |-> FALSE, value |-> <<>>]
Found(str) == [found |-> TRUE, value |-> str]
NotExtracted == [done |-> FALSE, result |-> NotFound]

\* IndygoPoolApiClient.__init__: nothing discovered, nothing running.
ClientInit ==
    /\ pool_address = NoGen
    /\ device_short_id = NoGen
    /\ relay_id = NoGen
    /\ pool_metadata = NoMetadata
    /\ scraped_programs = NoScraped
    /\ data = NoData
    /\ op = "none"
    /\ pc = "idle"
    /\ req = NoReq
    /\ body = NoPage
    /\ log = <<>>
    /\ result = "none"
    /\ call = NoCall
    /\ ownProg = PBare
    /\ before = NoBefore
    /\ submitted = <<>>
    /\ sent = <<>>
    /\ status_url = <<NoGen, NoGen>>
    /\ page_ids = <<NoGen, NoGen>>
    /\ primaryOk = FALSE
    /\ syncErr = "none"
    /\ ipx_module_metadata = NoIpx
    /\ discovered = NoDiscovered
    /\ merged = NoMerged
    /\ host_signal = "none"

\* Python's None where a string is expected; strings are sequences of
\* characters.
None == <<"None">>

\* A module of currentPool.modules: the fields parse_pool_ids reads.
Module(type, serialNumber, name, ipxRelay) ==
    [type |-> type, serialNumber |-> serialNumber, name |-> name, ipxRelay |-> ipxRelay]
NoModule == Module("none", None, None, None)

\* The dict json.loads gives for currentPool: {} or its "modules" entry.
Dict(hasModules, modules) == [empty |-> FALSE, hasModules |-> hasModules, modules |-> modules]
EmptyDict == [empty |-> TRUE, hasModules |-> FALSE, modules |-> <<>>]

\* A device page: whether the currentPool pattern matches, the text and
\* the offset of the opening brace, and what the member list "m" says.
Page(assign, txt, start, members) ==
    [assign |-> assign, text |-> txt, start |-> start, members |-> members]
NoHtml == Page(FALSE, <<>>, 0, EmptyDict)
NotLocated == [done |-> FALSE, raised |-> "none", pool_address |-> None, relay_id |-> None,
               pool_metadata |-> EmptyDict]

ExtractIdle ==
    /\ text = <<>>
    /\ start_index = 0
    /\ extracted = NotExtracted

DiscoveryIdle ==
    /\ html = NoHtml
    /\ located = NotLocated
    /\ scrape_result = "none"

\* A value of the merged dict: a missing key, JSON null, or a number.
AbsentValue == 0
NullValue   == 1
IndexErrorValue == 99  \* an IndexError that get_nested let through
NoIpxModule == [present |-> FALSE, hasOutputs |-> FALSE, outputs |-> <<>>, inputs |-> <<>>]
NoJsonData  == [root |-> <<>>, sensorState |-> <<>>, modules |-> <<>>,
                ipx_module |-> NoIpxModule]
NoPoolData  == [done |-> FALSE, raised |-> "none", sensors |-> <<>>, modules |-> <<>>]

NormalizeIdle ==
    /\ json_data = NoJsonData
    /\ pool_data = NoPoolData

\* coordinator.data is None; no option is being selected.
NoSnapshot == [present |-> FALSE, modules |-> <<>>]
NoSelect   == [pc |-> "idle", option |-> "", seen |-> NoSnapshot, events |-> <<>>]

SelectIdle ==
    /\ coordinator_data = NoSnapshot
    /\ select = NoSelect

\* No config entry has been set up.
NoEntry == [pc |-> "not_loaded", session |-> 0, registered |-> FALSE, platforms |-> FALSE,
            busy |-> FALSE, refreshes |-> 0]

SetupIdle ==
    /\ sessions = <<>>
    /\ entry = NoEntry

\* Two coroutines of one client: nothing stored, none running.
NoRace == [relay_id |-> [value |-> "", cycle |-> 0],
           scraped_programs |-> [present |-> FALSE, cycle |-> 0],
           data |-> [present |-> FALSE, cycle |-> 0],
           refresh |-> [pc |-> "idle", cycle |-> 0],
           set |-> [pc |-> "idle", programs_cycle |-> 0, relay_id |-> "", relay_cycle |-> 0,
                    overlapped |-> FALSE]]
RaceIdle == race = NoRace

\* A fresh client and a portal to talk to; the parser is not in use.
Init ==
    /\ portal \in ReliablePortals \cup FlakyPortals
    /\ ClientInit
    /\ ExtractIdle
    /\ DiscoveryIdle
    /\ NormalizeIdle
    /\ SelectIdle
    /\ SetupIdle
    /\ RaceIdle

\* ------------------------------------------------------- the portal's answers
Answer(k, s, lu, pg) == [kind |-> k, status |-> s, loginUrl |-> lu, page |-> pg]

CompletePages ==
    {[gen |-> g, hasAddr |-> TRUE, hasShort |-> TRUE, hasRelay |-> TRUE, login |-> FALSE] :
        g \in 1..MaxGen}
Pages ==
    {[gen |-> g, hasAddr |-> a, hasShort |-> s, hasRelay |-> r, login |-> FALSE] :
        g \in 1..MaxGen, a \in BOOLEAN, s \in BOOLEAN, r \in BOOLEAN}

\* The body of a status answer: a JSON value, a dict or not.  A key of
\* the dict maps to <<"json", key>>, the value the status endpoint gives it.
JsonDict(keys) == [isDict |-> TRUE, dict |-> [k \in keys |-> <<"json", k>>]]
StatusJsons ==
    {[isDict |-> FALSE, dict |-> <<>>],
     JsonDict({"ph"}),
     JsonDict({"ph", "modules", "ipx_module"})}
StatusBodies == {[json |-> j] : j \in StatusJsons}

PagesFor(kind, s, lu, choice) ==
    IF s # OK THEN {NoPage}
    ELSE IF lu THEN {LoginPage}
    ELSE IF kind = "devices" THEN choice
    ELSE IF kind = "status" THEN StatusBodies
    ELSE {NoPage}

Failures == {Answer("clientError", 0, FALSE, NoPage), Answer("timeout", 0, FALSE, NoPage)}

\* Answers to an exchange of request() made with redirects followed.
RequestAnswers(kind, phase) ==
    IF portal.reliable
    THEN {Answer("response", OK, FALSE, pg) : pg \in PagesFor(kind, OK, FALSE, CompletePages)}
    ELSE IF phase = "loginGet"
    THEN Failures \cup {Answer("response", s, TRUE, NoPage) : s \in {OK, UNAUTHORIZED, SERVER_ERROR}}
    ELSE Failures \cup
         UNION {{Answer("response", s, lu, pg) : pg \in PagesFor(kind, s, lu, Pages)} :
                    s \in {OK, UNAUTHORIZED, FORBIDDEN, SERVER_ERROR}, lu \in BOOLEAN}

\* Answers to the credentials POST (redirects not followed).
LoginPostAnswers ==
    Failures \cup {Answer("response", s, FALSE, NoPage) : s \in {OK, FOUND, UNAUTHORIZED, SERVER_ERROR}}


\* ------------------------------------------------------------- request()
Inc(n) == IF n < CountCap THEN n + 1 ELSE CountCap

\* A logical request as its caller issues it: request(..., retry_auth=True).
NewReq(kind) ==
    [kind |-> kind, phase |-> "request", return_json |-> (kind # "devices"), nSend |-> 1,
     nLogin |-> 0, all401 |-> TRUE, outcome |-> "none", last |-> NoLast, errMsg |-> <<>>]

\* Faulty variant of SessionInvalid: a 401 is not taken as an expired session.
SessionInvalidNo401(allow_redirects, status, locationLogin, loginUrl) ==
    \/ status = FORBIDDEN
    \/ (~allow_redirects /\ status = FOUND /\ locationLogin)
    \/ loginUrl

\* The response tells that the session is no longer valid.
SessionInvalid(allow_redirects, status, locationLogin, loginUrl) ==
    \/ status \in {UNAUTHORIZED, FORBIDDEN}
    \/ (~allow_redirects /\ status = FOUND /\ locationLogin)
    \/ loginUrl

\* Faulty variant of StatusAccepted: only server errors are refused.
StatusAcceptedBelow500(allow_redirects, status) == status < SERVER_ERROR

\* The status request() accepts as success.
StatusAccepted(allow_redirects, status) ==
    status = OK \/ (~allow_redirects /\ status = FOUND)

\* Faulty variant of RetryAuth: the retried request may re-authenticate too.
RetryAuthAlways(phase) == phase \in {"request", "retry"}

\* retry_auth of the exchange: True on the caller's request, False on the
\* retried request and on the GET of async_login.
RetryAuth(phase) == phase = "request"

Raised(r, err) == [r EXCEPT !.outcome = err]

\* The exchange of phase r.phase got the answer ans: its kind and status.
Seen(r, ans) ==
    [r EXCEPT !.last = [phase |-> r.phase, kind |-> ans.kind, status |-> ans.status]]

\* The text of an error response, which request() reads and logs.
ErrorBody == "body"

\* f"Request failed: {response.status}"
RequestFailed(status, bodyText) == <<"Request failed", status>>

\* f"Login failed: status code {response.status}, text: {await response.text()}"
LoginFailed(status, bodyText) == <<"Login failed", status, bodyText>>

\* The exception raised with message msg.
RaisedWith(r, err, msg) == [Raised(r, err) EXCEPT !.errMsg = msg]

\* request() on one answer.  Every caller follows redirects.  A body read
\* with response.json() from the (HTML) login page raises ContentTypeError,
\* an aiohttp.ClientError.  Only aiohttp.ClientError is caught: the
\* TimeoutError of an elapsed total timeout passes as it is.
Request(r, ans) ==
    IF ans.kind = "timeout"
    THEN RaisedWith(Seen([r EXCEPT !.all401 = FALSE], ans), "Unclassified", <<"TimeoutError">>)
    ELSE IF ans.kind = "clientError"
    THEN RaisedWith(Seen([r EXCEPT !.all401 = FALSE], ans), "CommunicationError",
                    <<"Error communicating with API", "ClientError">>)
    ELSE LET r1 == Seen([r EXCEPT !.all401 = @ /\ ans.status = UNAUTHORIZED], ans) IN
         IF SessionInvalid(TRUE, ans.status, FALSE, ans.loginUrl) /\ RetryAuth(r.phase)
         THEN [r1 EXCEPT !.phase = "loginGet", !.nLogin = Inc(@)]
         ELSE IF ~StatusAccepted(TRUE, ans.status)
         THEN RaisedWith(r1, "CommunicationError", RequestFailed(ans.status, ErrorBody))
         ELSE IF r.phase = "loginGet" THEN [r1 EXCEPT !.phase = "loginPost"]
         ELSE IF r.return_json /\ ans.loginUrl
         THEN RaisedWith(r1, "CommunicationError",
                         <<"Error communicating with API", "ContentTypeError">>)
         ELSE Raised(r1, "ok")

\* Faulty variant of LoginPost: only the redirect counts as success.
LoginPostRedirectOnly(r, ans) ==
    IF ans.kind = "timeout"
    THEN RaisedWith(Seen([r EXCEPT !.all401 = FALSE], ans), "Unclassified", <<"TimeoutError">>)
    ELSE IF ans.kind = "clientError"
    THEN RaisedWith(Seen([r EXCEPT !.all401 = FALSE], ans), "CommunicationError",
                    <<"Error logging in", "ClientError">>)
    ELSE LET r1 == Seen([r EXCEPT !.all401 = @ /\ ans.status = UNAUTHORIZED], ans) IN
         IF ans.status # FOUND
         THEN RaisedWith(r1, "AuthenticationError", LoginFailed(ans.status, ErrorBody))
         ELSE [r1 EXCEPT !.phase = "retry", !.nSend = Inc(@)]

\* Faulty variant of LoginPost: a rejected login raises a communication error.
LoginPostAsCommunication(r, ans) ==
    IF ans.kind = "timeout"
    THEN RaisedWith(Seen([r EXCEPT !.all401 = FALSE], ans), "Unclassified", <<"TimeoutError">>)
    ELSE IF ans.kind = "clientError"
    THEN RaisedWith(Seen([r EXCEPT !.all401 = FALSE], ans), "CommunicationError",
                    <<"Error logging in", "ClientError">>)
    ELSE LET r1 == Seen([r EXCEPT !.all401 = @ /\ ans.status = UNAUTHORIZED], ans) IN
         IF ans.status \notin {OK, FOUND}
         THEN RaisedWith(r1, "CommunicationError", LoginFailed(ans.status, ErrorBody))
         ELSE [r1 EXCEPT !.phase = "retry", !.nSend = Inc(@)]

\* The credentials POST of async_login on one answer; after a successful
\* login request() sends the original request again.
LoginPost(r, ans) ==
    IF ans.kind = "timeout"
    THEN RaisedWith(Seen([r EXCEPT !.all401 = FALSE], ans), "Unclassified", <<"TimeoutError">>)
    ELSE IF ans.kind = "clientError"
    THEN RaisedWith(Seen([r EXCEPT !.all401 = FALSE], ans), "CommunicationError",
                    <<"Error logging in", "ClientError">>)
    ELSE LET r1 == Seen([r EXCEPT !.all401 = @ /\ ans.status = UNAUTHORIZED], ans) IN
         IF ans.status \notin {OK, FOUND}
         THEN RaisedWith(r1, "AuthenticationError", LoginFailed(ans.status, ErrorBody))
         ELSE [r1 EXCEPT !.phase = "retry", !.nSend = Inc(@)]

\* An answer arrives for the pending exchange of request().
RequestResponse ==
    /\ pc = "await"
    /\ req.phase \in {"request", "retry", "loginGet"}
    /\ \E ans \in RequestAnswers(req.kind, req.phase) :
        /\ req' = Request(req, ans)
        /\ pc' = IF req'.outcome = "none" THEN "await" ELSE "returned"
        /\ body' = IF req'.outcome = "ok" THEN ans.page ELSE NoPage
    /\ UNCHANGED <<portal, clientVars, op, log, result, callVars, refreshVars, hostVars,
                   idleVars>>

\* An answer arrives for the credentials POST.
LoginPostResponse ==
    /\ pc = "await"
    /\ req.phase = "loginPost"
    /\ \E ans \in LoginPostAnswers :
        /\ req' = LoginPost(req, ans)
        /\ pc' = IF req'.outcome = "none" THEN "await" ELSE "returned"
    /\ body' = NoPage
    /\ UNCHANGED <<portal, clientVars, op, log, result, callVars, refreshVars, hostVars,
                   idleVars>>

\* The operation issues its next logical request / ends.
Issue(kind) ==
    /\ pc' = "await"
    /\ req' = NewReq(kind)
    /\ log' = Append(log, kind)
    /\ body' = NoPage
    /\ result' = "none"

Finish(res) ==
    /\ pc' = "done"
    /\ req' = NoReq
    /\ log' = log
    /\ body' = NoPage
    /\ result' = res


\* ---------------------------------------------------------- async_get_data
\* What the parser reads from the device page: the identifiers the page
\* shows and the currentPool metadata (empty on a page without it).
ParsePoolIds(page) ==
    [pool_address    |-> IF page.hasAddr THEN page.gen ELSE NoGen,
     device_short_id |-> IF page.hasShort THEN page.gen ELSE NoGen,
     relay_id        |-> IF page.hasRelay THEN page.gen ELSE NoGen,
     metadata        |-> IF page.login THEN NoMetadata
                         ELSE [present |-> TRUE, gen |-> page.gen,
                               inModules |-> portal.inModules,
                               name |-> portal.name, lora |-> portal.lora]]

\* The program lists embedded in the device page, per module.
ParseProgramsFromHtml(page) ==
    IF page.login \/ ~portal.hasProgs
    THEN [present |-> TRUE, hasModule |-> FALSE, programs |-> <<>>]
    ELSE [present |-> TRUE, hasModule |-> TRUE, programs |-> portal.progs]

\* The snapshot built from the merged data: the modules of the merged
\* "modules" list (the scraped metadata overwrites the status JSON), each
\* with the programs scraped for it.
ParseData(meta, addr, relay, scraped) ==
    IF meta.present /\ meta.inModules
    THEN [present |-> TRUE, address |-> addr, relay_id |-> relay, hasModule |-> TRUE,
          name |-> meta.name, lora |-> meta.lora,
          programs |-> IF scraped.hasModule THEN scraped.programs ELSE <<>>]
    ELSE [present |-> TRUE, address |-> addr, relay_id |-> relay, hasModule |-> FALSE,
          name |-> "", lora |-> FALSE, programs |-> <<>>]

\* Faulty variant of StoreIdentifier: an identifier, once known, is kept.
StoreIdentifierOnce(old, new) == IF old = NoGen THEN new ELSE old

\* self._pool_address = pool_address (and the like): the fresh value.
StoreIdentifier(old, new) == new

ResetCall ==
    /\ call' = NoCall
    /\ ownProg' = PBare
    /\ before' = NoBefore
    /\ submitted' = <<>>
    /\ sent' = <<>>
    /\ primaryOk' = FALSE
    /\ syncErr' = "none"

\* async_get_data is called: async_refresh_scraped_data GETs the device page.
AsyncGetData ==
    /\ pc \in {"idle", "done"}
    /\ op' = "refresh"
    /\ pc' = "await"
    /\ req' = NewReq("devices")
    /\ log' = <<"devices">>
    /\ body' = NoPage
    /\ result' = "none"
    /\ status_url' = <<NoGen, NoGen>>
    /\ page_ids' = <<NoGen, NoGen>>
    /\ ResetCall
    /\ discovered' = NoDiscovered
    /\ merged' = NoMerged
    /\ host_signal' = "none"
    /\ UNCHANGED <<portal, clientVars, ipx_module_metadata, idleVars>>

\* parse_ipx_module: the ipxModule object of the page, empty when the page
\* embeds none.  Which device pages embed one is fixed with the portal:
\* those of a portal whose module carries no name.
ParseIpxModule(page) == IF ~page.login /\ portal.name = "" THEN "ipxModule" ELSE NoIpx

\* Faulty variant of IdentifiersComplete: the relay id is not required.
IdentifiersCompleteNoRelay(ids) ==
    ids.pool_address # NoGen /\ ids.device_short_id # NoGen

\* Faulty variant of IdentifiersComplete: the check is missing.
IdentifiersCompleteUnchecked(ids) == TRUE

\* Faulty variant of IdentifiersComplete: one identifier found is enough.
IdentifiersCompleteAny(ids) ==
    ids.pool_address # NoGen \/ ids.device_short_id # NoGen \/ ids.relay_id # NoGen

\* not (not pool_address or not device_short_id or not relay_id)
IdentifiersComplete(ids) ==
    ids.pool_address # NoGen /\ ids.device_short_id # NoGen /\ ids.relay_id # NoGen

\* The scraped currentPool metadata as a dict: a key maps to
\* <<"scraped", key>>, the value the device page gives it.
MetadataDict(meta) ==
    IF meta.present THEN [k \in {"modules", "name"} |-> <<"scraped", k>>] ELSE <<>>

\* dict.update: the keys of e are set in d.
Update(d, e) ==
    [k \in (DOMAIN d) \cup (DOMAIN e) |-> IF k \in DOMAIN e THEN e[k] ELSE d[k]]

\* The merge of async_get_data: a status body that is no dict counts as {},
\* the metadata is merged in with update, the IPX metadata under its key.
Merge(json, meta, ipx) ==
    LET d0 == IF json.isDict THEN json.dict ELSE <<>>
        d1 == IF meta.present THEN Update(d0, MetadataDict(meta)) ELSE d0
    IN  IF ipx # NoIpx THEN Update(d1, [k \in {"ipx_module"} |-> <<"ipx", k>>]) ELSE d1

\* Faulty variant of AsyncUpdateData: the base class is caught first.
AsyncUpdateDataBaseFirst(res) ==
    IF res = "ok" THEN "data"
    ELSE IF res \in ClientErrors THEN "UpdateFailed"
    ELSE res

\* IndygoPoolDataUpdateCoordinator._async_update_data: what the host gets
\* from a refresh that ended with res (an exception of another kind passes).
AsyncUpdateData(res) ==
    IF res = "ok" THEN "data"
    ELSE IF res = "AuthenticationError" THEN "ConfigEntryAuthFailed"
    ELSE IF res \in ClientErrors THEN "UpdateFailed"
    ELSE res

\* async_get_data resumes after a request() has returned or raised; when it
\* ends, the coordinator maps its result for the host.
ContinueGetData ==
    /\ op = "refresh"
    /\ pc = "returned"
    /\ IF req.outcome # "ok"
       THEN /\ Finish(req.outcome)
            /\ UNCHANGED <<clientVars, refreshVars, ipx_module_metadata, discovered, merged>>
       ELSE IF req.kind = "devices"
       THEN LET ids == ParsePoolIds(body) IN
            /\ ipx_module_metadata' = ParseIpxModule(body)
            /\ scraped_programs' = ParseProgramsFromHtml(body)
            /\ discovered' = [parsed |-> TRUE, pool_address |-> ids.pool_address,
                              device_short_id |-> ids.device_short_id,
                              relay_id |-> ids.relay_id]
            /\ merged' = merged
            /\ data' = data
            /\ IF ~IdentifiersComplete(ids)
               THEN /\ Finish("ApiClientError")
                    /\ UNCHANGED <<pool_address, device_short_id, relay_id, pool_metadata,
                                   refreshVars>>
               ELSE /\ pool_address' = StoreIdentifier(pool_address, ids.pool_address)
                    /\ device_short_id' = StoreIdentifier(device_short_id, ids.device_short_id)
                    /\ relay_id' = StoreIdentifier(relay_id, ids.relay_id)
                    /\ pool_metadata' = ids.metadata
                    /\ page_ids' = <<ids.pool_address, ids.device_short_id>>
                    /\ IF pool_address' = NoGen \/ device_short_id' = NoGen
                       THEN /\ Finish("ApiClientError")
                            /\ status_url' = status_url
                       ELSE /\ Issue("status")
                            /\ status_url' = <<pool_address', device_short_id'>>
       ELSE /\ merged' = [present |-> TRUE, json |-> body.json,
                          metadata |-> MetadataDict(pool_metadata),
                          out |-> Merge(body.json, pool_metadata, ipx_module_metadata)]
            /\ data' = ParseData(pool_metadata, pool_address, relay_id, scraped_programs)
            /\ Finish("ok")
            /\ UNCHANGED <<pool_address, device_short_id, relay_id, pool_metadata,
                           scraped_programs, refreshVars, ipx_module_metadata, discovered>>
    /\ host_signal' = IF pc' = "done" THEN AsyncUpdateData(result') ELSE "none"
    /\ UNCHANGED <<portal, op, callVars, idleVars>>

\* ----------------------------------------------- async_set_filtration_mode
\* The module id every caller passes: the id of the portal's module.
ModuleId == "m1"

OwnPool == {PFilt, PBare}

\* The program objects a caller can pass: one of the snapshot's module, or
\* one of its own.
Targets ==
    {<<"own", 0>>} \cup
    (IF data.present /\ data.hasModule THEN {<<"data", i>> : i \in 1..Len(data.programs)} ELSE {})

\* module_programs and module_name as async_set_filtration_mode picks them.
ModulePrograms ==
    IF data.present /\ data.hasModule
    THEN [k \in 1..Len(data.programs) |-> <<"data", k>>]
    ELSE IF scraped_programs.present /\ scraped_programs.hasModule
    THEN [k \in 1..Len(scraped_programs.programs) |-> <<"scraped", k>>]
    ELSE <<>>

ModuleName == IF data.present /\ data.hasModule THEN data.name ELSE ""

\* async_set_filtration_mode(module_id, full_program_data, mode) is called:
\* it builds the payload and, unless the input is invalid, PUTs module/update.
AsyncSetFiltrationMode ==
    /\ pc \in {"idle", "done"}
    /\ \E m \in Modes, target \in Targets, own \in OwnPool :
        /\ target[1] = "data" => own = PBare
        /\ LET h  == HeapOf(data.programs, scraped_programs.programs, own)
               bp == BuildPayload(h, target, m, ModulePrograms)
           IN  /\ before' = [dataProgs |-> data.programs,
                             scrapedProgs |-> scraped_programs.programs,
                             passed |-> h[target]]
               /\ data' = [data EXCEPT
                             !.programs = [k \in 1..Len(data.programs) |-> bp.heap[<<"data", k>>]]]
               /\ scraped_programs' = [scraped_programs EXCEPT
                             !.programs = [k \in 1..Len(scraped_programs.programs) |->
                                             bp.heap[<<"scraped", k>>]]]
               /\ ownProg' = bp.heap[<<"own", 0>>]
               /\ call' = [module_id |-> ModuleId, mode |-> m, target |-> target,
                           updated |-> Dump(bp.heap, bp.updated),
                           copy |-> bp.heap[bp.copy],
                           module_name |-> ModuleName]
               /\ IF bp.valid
                  THEN /\ pc' = "await"
                       /\ req' = NewReq("moduleUpdate")
                       /\ log' = <<"moduleUpdate">>
                       /\ result' = "none"
                  ELSE /\ pc' = "done"
                       /\ req' = NoReq
                       /\ log' = <<>>
                       /\ result' = "ApiClientError"
    /\ op' = "set"
    /\ body' = NoPage
    /\ submitted' = <<>>
    /\ sent' = <<>>
    /\ primaryOk' = FALSE
    /\ syncErr' = "none"
    /\ status_url' = <<NoGen, NoGen>>
    /\ page_ids' = <<NoGen, NoGen>>
    /\ discovered' = NoDiscovered
    /\ merged' = NoMerged
    /\ host_signal' = "none"
    /\ UNCHANGED <<portal, pool_address, device_short_id, relay_id, pool_metadata,
                   ipx_module_metadata, idleVars>>

\* _get_module_serial / async_send_remote_control: a serial number is at
\* hand (the module's, from the snapshot or the metadata, else the gateway's).
SerialKnown ==
    \/ (data.present /\ data.hasModule)
    \/ (pool_metadata.present /\ pool_metadata.inModules)
    \/ pool_address # NoGen

\* Faulty variant of OffModeControl: the stop command goes out for any mode.
OffModeControlAlways(mode_id) == TRUE

\* _handle_off_mode_control: remote control only for OFF.
OffModeControl(mode_id) == mode_id = 0

\* LoRaWAN synchronisation is due for a V2 module of the snapshot.
LoraDue == data.present /\ data.hasModule /\ data.lora

\* Faulty variant of SyncStepAfter: the module report precedes the push.
SyncStepAfterSwapped(kind, name, offDue, loraDue) ==
    CASE kind = "programUpdate" -> IF name # "" THEN "remoteName" ELSE "reportModule"
      [] kind = "remoteName"    -> "reportModule"
      [] kind = "reportModule"  -> "remoteConfig"
      [] kind = "remoteConfig"  -> "reportPrograms"
      [] kind = "reportPrograms" -> IF offDue THEN "remoteControl"
                                    ELSE IF loraDue THEN "lorawan" ELSE "end"
      [] kind = "remoteControl" -> IF loraDue THEN "lorawan" ELSE "end"
      [] OTHER -> "end"

\* async_apply_module_changes: the request that follows `kind`, "end" when
\* none is left.  "programUpdate" stands for the entry of the function.
SyncStepAfter(kind, name, offDue, loraDue) ==
    CASE kind = "programUpdate" -> IF name # "" THEN "remoteName" ELSE "remoteConfig"
      [] kind = "remoteName"    -> "remoteConfig"
      [] kind = "remoteConfig"  -> "reportModule"
      [] kind = "reportModule"  -> "reportPrograms"
      [] kind = "reportPrograms" -> IF offDue THEN "remoteControl"
                                    ELSE IF loraDue THEN "lorawan" ELSE "end"
      [] kind = "remoteControl" -> IF loraDue THEN "lorawan" ELSE "end"
      [] OTHER -> "end"

\* Faulty variant of SyncErrorCaught: nothing is caught.
SyncErrorCaughtNever(err) == FALSE

\* except IndygoPoolApiClientError in async_apply_module_changes and in
\* async_synchronize_lorawan: client errors are logged, not raised.
SyncErrorCaught(err) == err \in ClientErrors

\* Faulty variant of Reraise: the error of a primary write is swallowed.
ReraiseSwallowed(err) == "ok"

\* except IndygoPoolApiClientError: log and raise.
Reraise(err) == err

\* Faulty variant of SyncSkipped: the relay id is not looked at.
SyncSkippedNever(relay) == FALSE

\* if not relay_id: return
SyncSkipped(relay) == relay = NoGen

\* Faulty variant of SyncAborted: a step that fails with a client error is
\* skipped and the next one is sent.
SyncAbortedUncaughtOnly(outcome) == outcome \notin ClientErrors \cup {"ok"}

\* The try block of async_apply_module_changes: the exception of a request
\* leaves the block, whatever it is.
SyncAborted(outcome) == outcome # "ok"

\* payload = {"moduleId": module_id, "relayId": relay_id}
RemoteConfigPayload(module_id, relay) == [moduleId |-> module_id, relayId |-> relay]

\* json.dumps({"module": module_id})
ReportModulePayload(module_id) == [module |-> module_id]

\* Faulty variant of ProgramsToReport: only the target is reported.
ProgramsToReportTargetOnly(programs, full_program_data) == <<full_program_data>>

\* programs or ([full_program_data] if full_program_data else None)
ProgramsToReport(programs, full_program_data) ==
    IF programs # <<>> THEN programs ELSE <<full_program_data>>

\* _report_programs_sent: {"module": module_id, "programs": programs}
ReportProgramsPayload(module_id, programs) == [module |-> module_id, programs |-> programs]

SyncReports == {"remoteConfig", "reportModule", "reportPrograms"}

\* The body async_apply_module_changes(module_id, self._relay_id,
\* updated_programs, program_copy) sends with the request of that kind.
SyncBody(kind) ==
    CASE kind = "remoteConfig" -> RemoteConfigPayload(call.module_id, relay_id)
      [] kind = "reportModule" -> ReportModulePayload(call.module_id)
      [] kind = "reportPrograms" ->
            ReportProgramsPayload(call.module_id, ProgramsToReport(call.updated, call.copy))

\* async_set_filtration_mode resumes after a request() has returned or raised.
ContinueSetFiltrationMode ==
    /\ op = "set"
    /\ pc = "returned"
    /\ LET next == SyncStepAfter(req.kind, call.module_name,
                                 OffModeControl(call.copy.mode) /\ SerialKnown, LoraDue)
       IN
       IF req.kind \in {"moduleUpdate", "programUpdate"} /\ req.outcome # "ok"
       THEN /\ Finish(Reraise(req.outcome))
            /\ UNCHANGED <<submitted, primaryOk, syncErr>>
       ELSE IF req.kind = "moduleUpdate"
       THEN /\ Issue("programUpdate")
            /\ submitted' = call.updated
            /\ UNCHANGED <<primaryOk, syncErr>>
       ELSE IF req.kind = "programUpdate"
       THEN /\ primaryOk' = TRUE
            /\ IF SyncSkipped(relay_id) \/ next = "end" THEN Finish("ok") ELSE Issue(next)
            /\ UNCHANGED <<submitted, syncErr>>
       ELSE IF SyncAborted(req.outcome)
       THEN /\ IF SyncErrorCaught(req.outcome)
               THEN Finish("ok")
               ELSE Finish(Reraise(req.outcome))
            /\ syncErr' = req.outcome
            /\ UNCHANGED <<submitted, primaryOk>>
       ELSE /\ IF next = "end" THEN Finish("ok") ELSE Issue(next)
            /\ UNCHANGED <<submitted, primaryOk, syncErr>>
    /\ sent' = IF log' # log /\ log'[Len(log')] \in SyncReports
               THEN Append(sent, [kind |-> log'[Len(log')], body |-> SyncBody(log'[Len(log')])])
               ELSE sent
    /\ UNCHANGED <<portal, clientVars, op, call, ownProg, before, refreshVars, hostVars,
                   idleVars>>

\* ------------------------------------------------------ extract_json_object
\* The characters that matter to the scan, and one that does not.
Chars == {"{", "}", "\"", "\\", "a"}
Texts == ListsUpTo(Chars, MaxLen)

\* txt[a:b] of Python (0-based, b exclusive).
Slice(txt, a, b) == SubSeq(txt, a + 1, b)

\* Faulty variant of Scan: a backslash inside a string escapes nothing.
RECURSIVE ScanNoEscape(_, _, _, _, _, _)
ScanNoEscape(txt, start, i, brace_count, in_string, escape) ==
    IF i >= Len(txt) THEN NotFound
    ELSE LET char == txt[i + 1] IN
         IF in_string
         THEN IF char = "\""
              THEN ScanNoEscape(txt, start, i + 1, brace_count, FALSE, escape)
              ELSE ScanNoEscape(txt, start, i + 1, brace_count, TRUE, escape)
         ELSE IF char = "\"" THEN ScanNoEscape(txt, start, i + 1, brace_count, TRUE, escape)
         ELSE IF char = "{" THEN ScanNoEscape(txt, start, i + 1, brace_count + 1, FALSE, escape)
         ELSE IF char = "}"
         THEN IF brace_count - 1 = 0 THEN Found(Slice(txt, start, i + 1))
              ELSE ScanNoEscape(txt, start, i + 1, brace_count - 1, FALSE, escape)
         ELSE ScanNoEscape(txt, start, i + 1, brace_count, FALSE, escape)

\* The loop of extract_json_object from index i (0-based) on, with the
\* values its three locals have there.
RECURSIVE Scan(_, _, _, _, _, _)
Scan(txt, start, i, brace_count, in_string, escape) ==
    IF i >= Len(txt) THEN NotFound
    ELSE LET char == txt[i + 1] IN
         IF in_string
         THEN IF escape THEN Scan(txt, start, i + 1, brace_count, TRUE, FALSE)
              ELSE IF char = "\\" THEN Scan(txt, start, i + 1, brace_count, TRUE, TRUE)
              ELSE IF char = "\"" THEN Scan(txt, start, i + 1, brace_count, FALSE, escape)
              ELSE Scan(txt, start, i + 1, brace_count, TRUE, escape)
         ELSE IF char = "\"" THEN Scan(txt, start, i + 1, brace_count, TRUE, escape)
         ELSE IF char = "{" THEN Scan(txt, start, i + 1, brace_count + 1, FALSE, escape)
         ELSE IF char = "}"
         THEN IF brace_count - 1 = 0 THEN Found(Slice(txt, start, i + 1))
              ELSE Scan(txt, start, i + 1, brace_count - 1, FALSE, escape)
         ELSE Scan(txt, start, i + 1, brace_count, FALSE, escape)

extract_json_object(txt, start) == Scan(txt, start, start, 0, FALSE, FALSE)

\* A parser at work on a text; no portal is talked to.
ExtractInit ==
    /\ portal = PortalRec(FALSE, "", FALSE, FALSE, <<>>, TRUE)
    /\ ClientInit
    /\ text \in Texts
    /\ start_index \in 0..MaxLen
    /\ extracted = NotExtracted
    /\ DiscoveryIdle
    /\ NormalizeIdle
    /\ SelectIdle
    /\ SetupIdle
    /\ RaceIdle

\* IndygoParser.extract_json_object(text, start_index) is called.
ExtractJsonObject ==
    /\ ~extracted.done
    /\ extracted' = [done |-> TRUE, result |-> extract_json_object(text, start_index)]
    /\ UNCHANGED <<clientSide, text, start_index, discoveryVars, normalizeVars, selectVars,
                   setupVars, raceVars>>

ExtractNext == ExtractJsonObject

ExtractSpec == ExtractInit /\ [][ExtractNext]_vars

\* ---------------------------------------------------------- parse_pool_ids
\* Serial numbers and names as the portal shows them.
SerialGateway    == <<"G", "W", "1", "2", "3", "4", "5">>
SerialController == <<"L", "R", "P", "C", "1", "2", "3">>
SerialShort      == <<"L", "R", "1">>
SerialIpx        == <<"I", "P", "X", "1">>
NamePoolABC      == <<"P", "-", "A", "B", "C">>
NameTwoHyphens   == <<"P", "-", "A", "-", "B">>
NamePlain        == <<"P", "o", "o", "l">>
RelayR9          == <<"R", "9">>

ModulePool ==
    {Module("lr-mb-10", SerialGateway, <<"G", "-", "1">>, None),
     Module("lr-mb-10", None, None, None),
     Module("lr-pc", SerialController, NamePoolABC, None),
     Module("lr-pc", SerialController, NamePlain, None),
     Module("lr-pc", SerialShort, NameTwoHyphens, None),
     Module("lr-pc", SerialShort, None, None),
     Module("lr-pc", None, NamePlain, None),
     Module("ipx", SerialIpx, None, RelayR9),
     Module("ipx", SerialIpx, None, None),
     Module("other", <<"O", "1">>, <<"O", "-", "1">>, <<"R", "1">>)}

\* The text from one character before the opening brace on: an object with
\* the member list ("m" stands for it), an empty object, an object json
\* cannot decode, and objects whose braces never balance.
ObjectTexts == {<<"=", "{", "m", "}">>, <<"=", "{", "m", "}", "a", "}">>}
EmptyText   == <<"=", "{", "}">>
BrokenTexts == {<<"=", "{", "a", "}">>, <<"=", "{", "m">>, <<"=", "{", "\"", "m", "}">>}

DevicePages ==
    {NoHtml}
    \cup {Page(TRUE, txt, 1, Dict(TRUE, <<>>)) : txt \in {EmptyText} \cup BrokenTexts}
    \cup {Page(TRUE, txt, 1, Dict(FALSE, <<>>)) : txt \in ObjectTexts}
    \cup {Page(TRUE, txt, 1, Dict(TRUE, ms)) :
             txt \in ObjectTexts, ms \in ListsUpTo(ModulePool, MaxModules)}

\* json.loads of an isolated object: raised = TRUE for JSONDecodeError.
JsonLoads(str, members) ==
    IF str = <<"{", "}">> THEN [raised |-> FALSE, value |-> EmptyDict]
    ELSE IF str = <<"{", "m", "}">> THEN [raised |-> FALSE, value |-> members]
    ELSE [raised |-> TRUE, value |-> EmptyDict]

\* Faulty variant of First: the type is not looked at.
FirstOfAnyType(modules, type) ==
    IF modules = <<>> THEN NoModule ELSE modules[1]

\* next((m for m in modules if m.get("type") == type), None)
First(modules, type) ==
    LET hits == {i \in 1..Len(modules) : modules[i].type = type}
    IN  IF hits = {} THEN NoModule
        ELSE modules[CHOOSE i \in hits : \A j \in hits : i <= j]

\* s.split("-"), with s.get("name", "") for a missing name.
RECURSIVE Split(_)
Split(s) ==
    LET hyphens == {i \in 1..Len(s) : s[i] = "-"} IN
    IF hyphens = {} THEN <<s>>
    ELSE LET i == CHOOSE h \in hyphens : \A j \in hyphens : h <= j
         IN  <<SubSeq(s, 1, i - 1)>> \o Split(SubSeq(s, i + 1, Len(s)))

\* s[-6:]
Last6(s) == IF Len(s) <= 6 THEN s ELSE SubSeq(s, Len(s) - 5, Len(s))

Returned(address, relay, metadata) ==
    [raised |-> "none", pool_address |-> address, relay_id |-> relay,
     pool_metadata |-> metadata]
RaisedIn(err) ==
    [raised |-> err, pool_address |-> None, relay_id |-> None, pool_metadata |-> EmptyDict]

\* Faulty variant of ControllerFound: the IPX fallback is always taken.
ControllerFoundNever(lr_pc) == FALSE

\* if lr_pc:
ControllerFound(lr_pc) == lr_pc # NoModule

\* IndygoParser.parse_pool_ids(html, pool_id): the address, the relay id and
\* the metadata it returns, or the exception it raises.
parse_pool_ids(page) ==
    LET json_str == IF page.assign THEN extract_json_object(page.text, page.start)
                    ELSE NotFound
        loaded == IF json_str.found THEN JsonLoads(json_str.value, page.members)
                  ELSE [raised |-> TRUE, value |-> EmptyDict]
        metadata == IF loaded.raised THEN EmptyDict ELSE loaded.value
    IN  IF metadata.empty THEN Returned(None, None, EmptyDict)
        ELSE IF ~metadata.hasModules THEN Returned(None, None, metadata)
        ELSE LET modules == metadata.modules
                 gateway == First(modules, "lr-mb-10")
                 lr_pc   == First(modules, "lr-pc")
                 ipx     == First(modules, "ipx")
             IN  IF ControllerFound(lr_pc)
                 THEN LET gw == IF gateway = NoModule THEN lr_pc ELSE gateway
                          name_parts == Split(IF lr_pc.name = None THEN <<>> ELSE lr_pc.name)
                      IN  IF Len(name_parts) > 1
                          THEN Returned(gw.serialNumber, name_parts[Len(name_parts)],
                                        metadata)
                          ELSE IF lr_pc.serialNumber = None THEN RaisedIn("TypeError")
                          ELSE Returned(gw.serialNumber, Last6(lr_pc.serialNumber),
                                        metadata)
                 ELSE IF ipx # NoModule
                 THEN Returned(ipx.serialNumber, ipx.ipxRelay, metadata)
                 ELSE Returned(None, None, metadata)

\* not value, for a string or None.
Falsy(value) == value = None \/ value = <<>>

\* The identifiers as the refresh tests them: found or not.
Found3(res, short) ==
    [pool_address    |-> IF Falsy(res.pool_address) THEN NoGen ELSE 1,
     device_short_id |-> short,
     relay_id        |-> IF Falsy(res.relay_id) THEN NoGen ELSE 1]

\* A parser and a device page; no portal is talked to.
DiscoveryInit ==
    /\ portal = PortalRec(FALSE, "", FALSE, FALSE, <<>>, TRUE)
    /\ ClientInit
    /\ ExtractIdle
    /\ html \in DevicePages
    /\ located = NotLocated
    /\ scrape_result = "none"
    /\ NormalizeIdle
    /\ SelectIdle
    /\ SetupIdle
    /\ RaceIdle

\* async_refresh_scraped_data on the page it fetched: parse_pool_ids, then
\* the test of the identifiers.  The device short id comes from the same
\* page, found or not.
RefreshScrapedData ==
    /\ ~located.done
    /\ \E short \in {NoGen, 1} :
        LET res == parse_pool_ids(html) IN
        /\ located' = [done |-> TRUE, raised |-> res.raised,
                       pool_address |-> res.pool_address, relay_id |-> res.relay_id,
                       pool_metadata |-> res.pool_metadata]
        /\ scrape_result' = IF res.raised # "none" THEN res.raised
                            ELSE IF ~IdentifiersComplete(Found3(res, short))
                            THEN "ApiClientError"
                            ELSE "stored"
    /\ UNCHANGED <<clientSide, extractVars, html, normalizeVars, selectVars, setupVars, raceVars>>

DiscoveryNext == RefreshScrapedData

DiscoverySpec == DiscoveryInit /\ [][DiscoveryNext]_vars

\* --------------------------------------------------------------- parse_data
\* The merged dict handed to parse_data: its root fields (a function of
\* the keys present), its "modules" list and its "ipx_module" entry.
RootOf(ph, temperature) ==
    [k \in (IF ph = AbsentValue THEN {} ELSE {"ph"})
           \cup (IF temperature = AbsentValue THEN {} ELSE {"temperature"})
        |-> IF k = "ph" THEN ph ELSE temperature]
\* A status dict with every known root field (orp is null) and other keys.
FullRoot ==
    [k \in {"temperature", "ph", "redox", "orp", "salt", "chlorineRate", "pool", "ipx_salt"}
        |-> IF k = "orp" THEN NullValue ELSE 650]
Roots ==
    {RootOf(ph, t) : ph \in {AbsentValue, NullValue, 72}, t \in {AbsentValue, 255}}
    \cup {FullRoot}

\* The legacy sensorState list: absent (or empty), one item of index 0, and
\* one item of index 0 without a value.
SensorStates ==
    {<<>>, <<[index |-> 0, value |-> 2550]>>, <<[index |-> 0, value |-> NullValue]>>}

ModuleDict(id, type, duration, progs) ==
    [id |-> id, type |-> type, name |-> "Pump", totalElectrolyseDuration |-> duration,
     programs |-> progs]
ModuleDicts ==
    {ModuleDict("m1", "lr-pc", AbsentValue, <<PFilt>>),
     ModuleDict("m1", "lr-pc", AbsentValue, <<PLight, PTimer>>),
     ModuleDict("m2", "ipx", 100, <<>>),
     ModuleDict("m2", "other", 100, <<PFilt2>>)}

Output(pHSetpoint, saltValue, percentageSetpoint, electrolyzerMode) ==
    [ipxData |-> TRUE, pHSetpoint |-> pHSetpoint, saltValue |-> saltValue,
     percentageSetpoint |-> percentageSetpoint, electrolyzerMode |-> electrolyzerMode]
\* An entry of outputs without "ipxData".
OutputNoIpxData == [Output(AbsentValue, AbsentValue, AbsentValue, AbsentValue)
                       EXCEPT !.ipxData = FALSE]
Reading(type, value, date) == [type |-> type, value |-> value, date |-> date]
TEST_DATE == "2023-01-01T12:00:00Z"
PhInput == 6       \* the type of the pH input of the IPX module
IpxModules ==
    {NoIpxModule}
    \cup {[present |-> TRUE, hasOutputs |-> outs # <<>>, outputs |-> outs, inputs |-> ins] :
             outs \in {<<>>, <<Output(74, AbsentValue, AbsentValue, AbsentValue)>>,
                       <<Output(74, AbsentValue, AbsentValue, AbsentValue),
                         Output(AbsentValue, 30, 80, 2)>>,
                       <<OutputNoIpxData, Output(AbsentValue, 30, AbsentValue, 2)>>,
                       <<Output(74, AbsentValue, AbsentValue, AbsentValue), OutputNoIpxData>>},
             ins \in {<<>>, <<Reading(0, AbsentValue, "")>>,
                      <<Reading(0, AbsentValue, ""), Reading(PhInput, 70, TEST_DATE)>>,
                      <<Reading(PhInput, 72, TEST_DATE)>>}}

\* IndygoSensorData(key=..., value=...): extra_attributes defaults to {}.
IndygoSensorData(key, value) == [key |-> key, value |-> value, extra_attributes |-> <<>>]

NoProgram == [present |-> FALSE, program |-> PBare]

\* Faulty variant of IndygoModuleData: the first program of the raw module
\* is taken as filtration program.
IndygoModuleDataFirstProgram(id, type, name, raw_data) ==
    [id |-> id, type |-> type, name |-> name, sensors |-> <<>>, raw_data |-> raw_data,
     programs |-> <<>>,
     filtration_program |-> IF raw_data.programs = <<>> THEN NoProgram
                            ELSE [present |-> TRUE, program |-> raw_data.programs[1]]]

\* IndygoModuleData(id=..., type=..., name=..., raw_data=...): sensors,
\* programs and filtration_program take their defaults.
IndygoModuleData(id, type, name, raw_data) ==
    [id |-> id, type |-> type, name |-> name, sensors |-> <<>>, raw_data |-> raw_data,
     programs |-> <<>>, filtration_program |-> NoProgram]

\* d[key] = value
Put(d, key, value) == Update(d, [k \in {key} |-> value])

root_sensors_map == {"temperature", "ph", "redox", "orp", "salt", "chlorineRate"}

\* Faulty variant of parse_root_sensors: a null field gets a reading too.
parse_root_sensors_with_null(json) ==
    [key \in root_sensors_map \cap DOMAIN json.root |-> IndygoSensorData(key, json.root[key])]

\* _parse_root_sensors: one sensor per known root key that is present and
\* not null.
parse_root_sensors(json) ==
    [key \in {k \in root_sensors_map \cap DOMAIN json.root : json.root[k] # NullValue}
        |-> IndygoSensorData(key, json.root[key])]

\* _parse_sensor_state: the loop over sensorState whose body is `pass`.
parse_sensor_state(json, sensors) == sensors

\* _parse_modules: one IndygoModuleData per module of the list, keyed by id.
RECURSIVE parse_modules(_, _, _)
parse_modules(list, i, modules) ==
    IF i > Len(list) THEN modules
    ELSE LET module == list[i]
             made == IndygoModuleData(module.id, module.type, module.name, module)
             indygo_module ==
                 IF module.type = "ipx" /\ module.totalElectrolyseDuration # AbsentValue
                 THEN [made EXCEPT !.sensors =
                          Put(@, "totalElectrolyseDuration",
                              IndygoSensorData("totalElectrolyseDuration",
                                               module.totalElectrolyseDuration))]
                 ELSE made
         IN  parse_modules(list, i + 1, Put(modules, module.id, indygo_module))

\* Faulty variant of get_nested: the IndexError of a short list is not caught.
get_nested_uncaught(outputs, index, field) ==
    IF index + 1 > Len(outputs) THEN IndexErrorValue
    ELSE IF ~outputs[index + 1].ipxData THEN AbsentValue
    ELSE outputs[index + 1][field]

\* get_nested(outputs, index, "ipxData", field): None when the list is too
\* short (IndexError is caught), when the entry has no ipxData and when
\* ipxData has no such field.
get_nested(outputs, index, field) ==
    IF index + 1 > Len(outputs) THEN AbsentValue
    ELSE IF ~outputs[index + 1].ipxData THEN AbsentValue
    ELSE outputs[index + 1][field]

\* ipx_mod.get("outputs", [])
OutputsOf(ipx_mod) == IF ipx_mod.hasOutputs THEN ipx_mod.outputs ELSE <<>>

\* The exception that leaves _parse_scraped_ipx, "none" when it returns.
scraped_ipx_raises(json) ==
    IF /\ json.ipx_module.present
       /\ \E q \in {<<1, "saltValue">>, <<0, "pHSetpoint">>, <<1, "percentageSetpoint">>,
                     <<1, "electrolyzerMode">>} :
              get_nested(OutputsOf(json.ipx_module), q[1], q[2]) = IndexErrorValue
    THEN "IndexError"
    ELSE "none"

\* _parse_scraped_ipx: the four sensors read from ipx_module.outputs.
parse_scraped_ipx(json, sensors) ==
    IF ~json.ipx_module.present THEN sensors
    ELSE LET outputs == OutputsOf(json.ipx_module)
             salt == get_nested(outputs, 1, "saltValue")
             ph_set == get_nested(outputs, 0, "pHSetpoint")
             prod_set == get_nested(outputs, 1, "percentageSetpoint")
             elec_mode == get_nested(outputs, 1, "electrolyzerMode")
             s1 == IF salt # AbsentValue
                   THEN Put(sensors, "ipx_salt", IndygoSensorData("ipx_salt", salt))
                   ELSE sensors
             s2 == IF ph_set # AbsentValue
                   THEN Put(s1, "ph_setpoint", IndygoSensorData("ph_setpoint", ph_set))
                   ELSE s1
             s3 == IF prod_set # AbsentValue
                   THEN Put(s2, "production_setpoint",
                            IndygoSensorData("production_setpoint", prod_set))
                   ELSE s2
         IN  IF elec_mode # AbsentValue
             THEN Put(s3, "electrolyzer_mode",
                      IndygoSensorData("electrolyzer_mode", elec_mode))
             ELSE s3

\* IndygoParser.parse_data(json_data, pool_id, pool_address, relay_id).
parse_data(json) ==
    IF scraped_ipx_raises(json) # "none"
    THEN [done |-> TRUE, raised |-> scraped_ipx_raises(json), sensors |-> <<>>,
          modules |-> <<>>]
    ELSE [done |-> TRUE,
          raised |-> "none",
          sensors |-> parse_scraped_ipx(json,
                                        parse_sensor_state(json, parse_root_sensors(json))),
          modules |-> parse_modules(json.modules, 1, <<>>)]

\* A parser and a merged dict; no portal is talked to.
NormalizeInit ==
    /\ portal = PortalRec(FALSE, "", FALSE, FALSE, <<>>, TRUE)
    /\ ClientInit
    /\ ExtractIdle
    /\ DiscoveryIdle
    /\ json_data \in [root : Roots, sensorState : SensorStates,
                      modules : ListsUpTo(ModuleDicts, MaxModules), ipx_module : IpxModules]
    /\ pool_data = NoPoolData
    /\ SelectIdle
    /\ SetupIdle
    /\ RaceIdle

\* IndygoParser.parse_data is called on the merged dict.
CallParseData ==
    /\ ~pool_data.done
    /\ pool_data' = parse_data(json_data)
    /\ UNCHANGED <<clientSide, extractVars, discoveryVars, json_data, selectVars, setupVars, raceVars>>

NormalizeNext == CallParseData

NormalizeSpec == NormalizeInit /\ [][NormalizeNext]_vars

\* ------------------------------------------------- IndygoPoolSelect (select.py)
ModuleIds == {"m1", "m2"}
EntityModule == "m1"       \* self._module_id of the entity
HasProgram(p) == [present |-> TRUE, program |-> p]
FiltrationPrograms == {NoProgram, HasProgram(PFilt), HasProgram(PFilt2), HasProgram(PBare)}
ModuleMaps == UNION {[D -> [filtration_program : FiltrationPrograms]] : D \in SUBSET ModuleIds}
Snapshots == {NoSnapshot} \cup {[present |-> TRUE, modules |-> ms] : ms \in ModuleMaps}

MODE_OFF  == "Off"
MODE_ON   == "On"
MODE_AUTO == "Auto"
Options   == {MODE_OFF, MODE_ON, MODE_AUTO, "Invalid"}

\* Faulty variant of MODE_TO_INT: the integers are those of another scale.
MODE_TO_INT_FromOne == (MODE_OFF :> 1) @@ (MODE_ON :> 2) @@ (MODE_AUTO :> 3)

MODE_TO_INT == (MODE_OFF :> 0) @@ (MODE_ON :> 1) @@ (MODE_AUTO :> 2)

\* What the entity does, in order: the call of async_set_filtration_mode
\* with its arguments, its return or exception, the refresh request.
Event(kind, module_id, program, mode) ==
    [kind |-> kind, module_id |-> module_id, program |-> program, mode |-> mode]
Plain(kind) == Event(kind, "", PBare, 0)

Ended(option, snapshot) ==
    [pc |-> "done", option |-> option, seen |-> snapshot, events |-> <<>>]

\* An entity and the coordinator's snapshot; no portal is talked to.
SelectInit ==
    /\ portal = PortalRec(FALSE, "", FALSE, FALSE, <<>>, TRUE)
    /\ ClientInit
    /\ ExtractIdle
    /\ DiscoveryIdle
    /\ NormalizeIdle
    /\ coordinator_data \in Snapshots
    /\ select = NoSelect
    /\ SetupIdle
    /\ RaceIdle

\* async_select_option(option) up to its first await.
AsyncSelectOption ==
    /\ select.pc \in {"idle", "done"}
    /\ \E option \in Options :
        LET snapshot == coordinator_data IN
        select' =
            IF ~snapshot.present \/ EntityModule \notin DOMAIN snapshot.modules
            THEN Ended(option, snapshot)
            ELSE LET module == snapshot.modules[EntityModule] IN
                 IF ~module.filtration_program.present THEN Ended(option, snapshot)
                 ELSE IF option \notin DOMAIN MODE_TO_INT THEN Ended(option, snapshot)
                 ELSE [pc |-> "set", option |-> option, seen |-> snapshot,
                       events |-> <<Event("set", EntityModule,
                                          module.filtration_program.program,
                                          MODE_TO_INT[option])>>]
    /\ UNCHANGED <<clientSide, extractVars, discoveryVars, normalizeVars, coordinator_data,
                   setupVars, raceVars>>

\* async_set_filtration_mode returns, and the refresh is requested, or it
\* raises, and async_select_option ends with the exception.
SetFiltrationModeReturns ==
    /\ select.pc = "set"
    /\ \E res \in {"ok"} \cup ClientErrors \cup {"Unclassified"} :
        select' = IF res = "ok"
                  THEN [select EXCEPT !.pc = "refresh",
                                      !.events = @ \o <<Plain("returned"), Plain("refresh")>>]
                  ELSE [select EXCEPT !.pc = "done", !.events = Append(@, Plain("raised"))]
    /\ UNCHANGED <<clientSide, extractVars, discoveryVars, normalizeVars, coordinator_data,
                   setupVars, raceVars>>

\* async_request_refresh returns.
RequestRefreshReturns ==
    /\ select.pc = "refresh"
    /\ select' = [select EXCEPT !.pc = "done"]
    /\ UNCHANGED <<clientSide, extractVars, discoveryVars, normalizeVars, coordinator_data,
                   setupVars, raceVars>>

\* The coordinator replaces its data after a refresh.
CoordinatorUpdate ==
    /\ coordinator_data' \in Snapshots \ {coordinator_data}
    /\ UNCHANGED <<clientSide, extractVars, discoveryVars, normalizeVars, select, setupVars, raceVars>>

SelectNext ==
    \/ AsyncSelectOption
    \/ SetFiltrationModeReturns
    \/ RequestRefreshReturns
    \/ CoordinatorUpdate

SelectSpec == SelectInit /\ [][SelectNext]_vars

\* ------------------------------------------ async_setup_entry (__init__.py)
\* async_config_entry_first_refresh raises when the first update failed.
FirstRefreshRaises(signal) == signal # "data"

\* An integration with no entry set up; no portal is talked to.
SetupInit ==
    /\ portal = PortalRec(FALSE, "", FALSE, FALSE, <<>>, TRUE)
    /\ ClientInit
    /\ ExtractIdle
    /\ DiscoveryIdle
    /\ NormalizeIdle
    /\ SelectIdle
    /\ SetupIdle
    /\ RaceIdle

\* async_setup_entry up to its first await: the session, the client and the
\* coordinator are created and the first refresh is awaited.  The host
\* calls it for a new entry and again after a setup that failed.
AsyncSetupEntry ==
    /\ entry.pc \in {"not_loaded", "setup_retry", "setup_error"}
    /\ Len(sessions) < MaxSetups
    /\ sessions' = Append(sessions, "open")
    /\ entry' = [pc |-> "first_refresh", session |-> Len(sessions) + 1, registered |-> FALSE,
                 platforms |-> FALSE, busy |-> TRUE, refreshes |-> 0]
    /\ UNCHANGED <<clientSide, extractVars, discoveryVars, normalizeVars, selectVars, raceVars>>

\* The first refresh ends: with data the coordinator is stored in hass.data
\* and the platforms are set up; otherwise async_setup_entry ends with the
\* exception of async_config_entry_first_refresh.
FirstRefreshReturns ==
    /\ entry.pc = "first_refresh"
    /\ \E res \in {"ok"} \cup ClientErrors \cup {"Unclassified"} :
        LET signal == AsyncUpdateData(res) IN
        entry' = IF ~FirstRefreshRaises(signal)
                 THEN [entry EXCEPT !.pc = "forward", !.registered = TRUE, !.busy = FALSE]
                 ELSE [entry EXCEPT !.busy = FALSE,
                                    !.pc = IF signal = "ConfigEntryAuthFailed"
                                           THEN "setup_error" ELSE "setup_retry"]
    /\ UNCHANGED <<clientSide, extractVars, discoveryVars, normalizeVars, selectVars, sessions, raceVars>>

\* async_forward_entry_setups returns and async_setup_entry returns True.
ForwardEntrySetupsReturns ==
    /\ entry.pc = "forward"
    /\ entry' = [entry EXCEPT !.pc = "loaded", !.platforms = TRUE]
    /\ UNCHANGED <<clientSide, extractVars, discoveryVars, normalizeVars, selectVars, sessions, raceVars>>

\* The coordinator of a loaded entry starts a refresh (update_interval).
TimerRefresh ==
    /\ entry.pc = "loaded"
    /\ ~entry.busy
    /\ entry.refreshes < CountCap
    /\ entry' = [entry EXCEPT !.busy = TRUE, !.refreshes = @ + 1]
    /\ UNCHANGED <<clientSide, extractVars, discoveryVars, normalizeVars, selectVars, sessions, raceVars>>

RefreshReturns ==
    /\ entry.pc = "loaded"
    /\ entry.busy
    /\ entry' = [entry EXCEPT !.busy = FALSE]
    /\ UNCHANGED <<clientSide, extractVars, discoveryVars, normalizeVars, selectVars, sessions, raceVars>>

\* async_unload_entry up to its await of async_unload_platforms.
AsyncUnloadEntry ==
    /\ entry.pc = "loaded"
    /\ ~entry.busy
    /\ entry' = [entry EXCEPT !.pc = "unloading"]
    /\ UNCHANGED <<clientSide, extractVars, discoveryVars, normalizeVars, selectVars, sessions, raceVars>>

\* unload_ok is true: the coordinator is popped and its session closed.
UnloadSucceeds ==
    /\ entry.pc = "unloading"
    /\ sessions' = [sessions EXCEPT ![entry.session] = "closed"]
    /\ entry' = [entry EXCEPT !.pc = "not_loaded", !.registered = FALSE, !.platforms = FALSE]
    /\ UNCHANGED <<clientSide, extractVars, discoveryVars, normalizeVars, selectVars, raceVars>>

\* unload_ok is false: the entry stays loaded.
UnloadFails ==
    /\ entry.pc = "unloading"
    /\ entry' = [entry EXCEPT !.pc = "loaded"]
    /\ UNCHANGED <<clientSide, extractVars, discoveryVars, normalizeVars, selectVars, sessions, raceVars>>

SetupNext ==
    \/ AsyncSetupEntry
    \/ FirstRefreshReturns
    \/ ForwardEntrySetupsReturns
    \/ TimerRefresh
    \/ RefreshReturns
    \/ AsyncUnloadEntry
    \/ UnloadSucceeds
    \/ UnloadFails

\* Every awaited call returns; the host unloads a loaded entry in the end
\* (when it shuts down at the latest), and an unload that is tried again
\* and again succeeds.
SetupSpec ==
    /\ SetupInit
    /\ [][SetupNext]_vars
    /\ WF_vars(FirstRefreshReturns)
    /\ WF_vars(ForwardEntrySetupsReturns)
    /\ WF_vars(RefreshReturns)
    /\ SF_vars(AsyncUnloadEntry)
    /\ SF_vars(UnloadSucceeds)

\* ------------------- async_get_data beside async_set_filtration_mode (api.py)
\* The relay ids device pages show.
RelayValues == {"relay_a", "relay_b"}

\* A client with nothing stored; the host's event loop runs the coordinator's
\* refresh and the select entity's call as two coroutines.
RaceInit ==
    /\ portal = PortalRec(FALSE, "", FALSE, FALSE, <<>>, TRUE)
    /\ ClientInit
    /\ ExtractIdle
    /\ DiscoveryIdle
    /\ NormalizeIdle
    /\ SelectIdle
    /\ SetupIdle
    /\ RaceIdle

\* A step of the refresh while the set call is suspended on a request.
Overlap(set) == [set EXCEPT !.overlapped = @ \/ set.pc \in {"moduleUpdate", "programUpdate"}]

\* async_get_data is called (one refresh at a time): the device page GET.
RaceGetData ==
    /\ race.refresh.pc = "idle"
    /\ race.refresh.cycle < MaxCycles
    /\ race' = [race EXCEPT !.refresh = [pc |-> "devices", cycle |-> @.cycle + 1],
                            !.set = Overlap(@)]
    /\ UNCHANGED <<clientSide, extractVars, discoveryVars, normalizeVars, selectVars, setupVars>>

\* The device page GET returns: the scraped programs of the page are stored,
\* and with complete identifiers these are stored too and the status GET
\* follows; otherwise, or when the GET raises, the refresh ends with the error.
RaceDevicesReturn ==
    /\ race.refresh.pc = "devices"
    /\ \/ \E v \in RelayValues :
            race' = [race EXCEPT !.scraped_programs = [present |-> TRUE,
                                                       cycle |-> race.refresh.cycle],
                                 !.relay_id = [value |-> v, cycle |-> race.refresh.cycle],
                                 !.refresh.pc = "status",
                                 !.set = Overlap(@)]
       \/ race' = [race EXCEPT !.scraped_programs = [present |-> TRUE,
                                                     cycle |-> race.refresh.cycle],
                               !.refresh.pc = "idle",
                               !.set = Overlap(@)]
       \/ race' = [race EXCEPT !.refresh.pc = "idle", !.set = Overlap(@)]
    /\ UNCHANGED <<clientSide, extractVars, discoveryVars, normalizeVars, selectVars, setupVars>>

\* The status GET returns: self._data becomes the snapshot of this cycle,
\* or the refresh ends with the error of the request.
RaceStatusReturn ==
    /\ race.refresh.pc = "status"
    /\ \/ race' = [race EXCEPT !.data = [present |-> TRUE, cycle |-> race.refresh.cycle],
                               !.refresh.pc = "idle",
                               !.set = Overlap(@)]
       \/ race' = [race EXCEPT !.refresh.pc = "idle", !.set = Overlap(@)]
    /\ UNCHANGED <<clientSide, extractVars, discoveryVars, normalizeVars, selectVars, setupVars>>

\* The refresh cycle whose programs async_set_filtration_mode reads: those of
\* self._data, else the scraped ones, else none (0).
ModuleProgramsCycle(r) ==
    IF r.data.present THEN r.data.cycle
    ELSE IF r.scraped_programs.present THEN r.scraped_programs.cycle
    ELSE 0

\* async_set_filtration_mode is called: module_programs and module_name are
\* read, then module/update is awaited.
RaceSetFiltrationMode ==
    /\ race.set.pc \in {"idle", "done"}
    /\ race' = [race EXCEPT !.set = [pc |-> "moduleUpdate",
                                     programs_cycle |-> ModuleProgramsCycle(race),
                                     relay_id |-> "", relay_cycle |-> 0,
                                     overlapped |-> race.refresh.pc # "idle"]]
    /\ UNCHANGED <<clientSide, extractVars, discoveryVars, normalizeVars, selectVars, setupVars>>

\* module/update returns (or raises): program/update is awaited.
RaceModuleUpdateReturn ==
    /\ race.set.pc = "moduleUpdate"
    /\ \/ race' = [race EXCEPT !.set.pc = "programUpdate"]
       \/ race' = [race EXCEPT !.set.pc = "done"]
    /\ UNCHANGED <<clientSide, extractVars, discoveryVars, normalizeVars, selectVars, setupVars>>

\* program/update returns: self._relay_id is read and handed to
\* async_apply_module_changes, which pushes the configuration with it.
RaceProgramUpdateReturn ==
    /\ race.set.pc = "programUpdate"
    /\ race' = [race EXCEPT !.set.pc = IF SyncSkipped(IF race.relay_id.value = "" THEN NoGen
                                                       ELSE race.relay_id.cycle)
                                        THEN "done" ELSE "remoteConfig",
                            !.set.relay_id = race.relay_id.value,
                            !.set.relay_cycle = race.relay_id.cycle]
    /\ UNCHANGED <<clientSide, extractVars, discoveryVars, normalizeVars, selectVars, setupVars>>

\* The push returns and with it, after the reports, the call.
RaceSyncReturn ==
    /\ race.set.pc = "remoteConfig"
    /\ race' = [race EXCEPT !.set.pc = "done"]
    /\ UNCHANGED <<clientSide, extractVars, discoveryVars, normalizeVars, selectVars, setupVars>>

RaceNext ==
    \/ RaceGetData
    \/ RaceDevicesReturn
    \/ RaceStatusReturn
    \/ RaceSetFiltrationMode
    \/ RaceModuleUpdateReturn
    \/ RaceProgramUpdateReturn
    \/ RaceSyncReturn

RaceSpec == RaceInit /\ [][RaceNext]_vars

\* ----------------------------------------------------------- specification
Next ==
    \/ AsyncGetData
    \/ AsyncSetFiltrationMode
    \/ RequestResponse
    \/ LoginPostResponse
    \/ ContinueGetData
    \/ ContinueSetFiltrationMode

Spec == Init /\ [][Next]_vars

\* The same client against portals whose module holds programs without an
\* "id" key and programs that share an id.
PNoId      == Prog("none", FALSE, TRUE, PROGRAM_TYPE_FILTRATION, 1)
PNoIdLight == Prog("none", TRUE, TRUE, TypeOther, 0)
SharedIdPool == {PNoId, PNoIdLight, PFilt2, PLight}
SharedIdPortals ==
    {PortalRec(im, "Pool-1", FALSE, TRUE, pr, TRUE) :
        im \in BOOLEAN, pr \in ListsUpTo(SharedIdPool, MaxProgs)}
    \cup {PortalRec(TRUE, "Pool-1", TRUE, TRUE, <<PNoId, PNoIdLight>>, FALSE)}

SharedIdInit ==
    /\ portal \in SharedIdPortals
    /\ ClientInit
    /\ ExtractIdle
    /\ DiscoveryIdle
    /\ NormalizeIdle
    /\ SelectIdle
    /\ SetupIdle
    /\ RaceIdle

SharedIdSpec == SharedIdInit /\ [][Next]_vars


\* Every pending exchange is answered in the end: by a response, by a
\* connection error or by the session's timeout (aiohttp's ClientTimeout),
\* and a coroutine whose request() has returned is resumed by the event loop.
FairSpec ==
    /\ Init
    /\ [][Next]_vars
    /\ WF_vars(RequestResponse)
    /\ WF_vars(LoginPostResponse)
    /\ WF_vars(ContinueGetData)
    /\ WF_vars(ContinueSetFiltrationMode)

\* ------------------------------------------------------------------ claims
InLog(kind) == \E k \in 1..Len(log) : log[k] = kind

PrimaryKinds == {"moduleUpdate", "programUpdate"}
SyncKinds == {"remoteName", "remoteConfig", "reportModule", "reportPrograms",
              "remoteControl", "lorawan"}

\* C1: when both primary writes of async_set_filtration_mode succeeded and a
\* later synchronisation or reporting request failed with a client error,
\* the call returns normally and the program-list update has been sent.
C1_SyncFailureNotRaised ==
    (op = "set" /\ pc = "done" /\ primaryOk /\ syncErr \in ClientErrors)
        => (result = "ok" /\ InLog("programUpdate"))

C1_Witness ==
    /\ op = "set" /\ pc = "done" /\ primaryOk
    /\ syncErr = "CommunicationError"
    /\ result = "ok"
    /\ log = <<"moduleUpdate", "programUpdate", "remoteName", "remoteConfig">>

\* C2: when the module update or the program-list update fails, the call
\* ends at once raising that error: no further request is issued, so no
\* synchronisation request, and no program-list update after a failed
\* module update.
C2_PrimaryFailureRaised ==
    [][(op = "set" /\ pc = "returned" /\ req.kind \in PrimaryKinds /\ req.outcome # "ok")
         => /\ pc' = "done"
            /\ result' = req.outcome
            /\ log' = log
            /\ \A k \in 1..Len(log) : log[k] \in PrimaryKinds
            /\ (req.kind = "moduleUpdate" => log = <<"moduleUpdate">>)]_vars

C2_Witness ==
    /\ op = "set" /\ pc = "done" /\ ~primaryOk
    /\ result = "CommunicationError"
    /\ log = <<"moduleUpdate">>

\* C3: the module update, the program-list update, the remote push, the
\* module report and the program report are issued in this order, each at
\* most once, and a synchronisation or reporting request is issued only
\* after both primary writes have returned; a call that succeeds with a
\* relay id at hand issues all five.
CoreOrder == <<"moduleUpdate", "programUpdate", "remoteConfig", "reportModule", "reportPrograms">>
IsCore(kind) == \E k \in 1..Len(CoreOrder) : CoreOrder[k] = kind
CoreLog == SelectSeq(log, IsCore)

C3_RequestOrder ==
    op = "set" =>
        /\ Len(CoreLog) <= Len(CoreOrder)
        /\ \A k \in 1..Len(CoreLog) : CoreLog[k] = CoreOrder[k]
        /\ ((\E k \in 1..Len(log) : log[k] \in SyncKinds) => primaryOk)
        /\ (pc = "done" /\ result = "ok" /\ syncErr = "none" /\ relay_id # NoGen
                => CoreLog = CoreOrder)

C3_Witness ==
    /\ op = "set" /\ pc = "done" /\ result = "ok" /\ syncErr = "none"
    /\ portal.reliable
    /\ CoreLog = CoreOrder

\* C4 as stated: in a call in which every request succeeds the stop command
\* is sent if and only if the requested mode is OFF.
C4_AsStated ==
    (op = "set" /\ pc = "done" /\ result = "ok" /\ primaryOk /\ syncErr = "none")
        => (InLog("remoteControl") <=> call.mode = 0)

\* C4 (amended): in a call in which every request succeeds and the client
\* holds a relay id, the stop command is sent if and only if the requested
\* mode is OFF.
C4_OffControlWithRelay ==
    (op = "set" /\ pc = "done" /\ result = "ok" /\ primaryOk /\ syncErr = "none"
        /\ relay_id # NoGen)
        => (InLog("remoteControl") <=> call.mode = 0)

C4_Witness ==
    /\ op = "set" /\ pc = "done" /\ result = "ok" /\ syncErr = "none"
    /\ call.mode = 0
    /\ InLog("remoteControl")

\* C5: a logical request logs in at most once and is sent at most twice,
\* and it always ends, returning or raising.
C5_RetryBounded ==
    /\ [](req.nLogin <= 1 /\ req.nSend <= 2)
    /\ ((pc = "await") ~> (pc = "returned"))

C5_Witness ==
    /\ pc = "returned"
    /\ req.nLogin = 1
    /\ req.nSend = 2

\* C6: a request that is answered by nothing but 401 logs in exactly once
\* and ends raising a CommunicationError, the original request sent once.
C6_All401 ==
    (pc = "returned" /\ req.all401)
        => (req.outcome = "CommunicationError" /\ req.nLogin = 1 /\ req.nSend = 1)

C6_Witness ==
    /\ pc = "returned"
    /\ req.all401
    /\ req.nLogin = 1

\* C7: during and after async_set_filtration_mode the program object the
\* caller passed and every cached program object are what they were before
\* the call.
PassedNow ==
    IF call.target[1] = "data" THEN data.programs[call.target[2]] ELSE ownProg

C7_NoMutation ==
    op = "set" =>
        /\ data.programs = before.dataProgs
        /\ scraped_programs.programs = before.scrapedProgs
        /\ PassedNow = before.passed

C7_Witness ==
    /\ op = "set" /\ pc = "done" /\ result = "ok"
    /\ call.target[1] = "data"
    /\ Len(data.programs) = 2
    /\ call.mode # before.passed.mode

\* C8: a program without programCharacteristics makes the call fail at once
\* with a client error, no request having been sent.
C8_MissingCharacteristics ==
    (op = "set" /\ ~before.passed.hasChars)
        => (pc = "done" /\ result = "ApiClientError" /\ log = <<>> /\ req = NoReq)

C8_Witness ==
    /\ op = "set" /\ pc = "done"
    /\ ~before.passed.hasChars
    /\ result = "ApiClientError"

\* C9: the program list sent to program/update holds the target program
\* with the requested mode, and every program of it is flagged dataChanged.
ExpectedTarget == [before.passed EXCEPT !.mode = call.mode, !.dataChanged = TRUE]

C9_SubmittedPrograms ==
    (op = "set" /\ InLog("programUpdate")) =>
        /\ \E k \in 1..Len(submitted) : submitted[k] = ExpectedTarget
        /\ \A k \in 1..Len(submitted) :
              /\ submitted[k].dataChanged
              /\ (submitted[k].id = before.passed.id => submitted[k] = ExpectedTarget)

C9_Witness ==
    /\ op = "set" /\ InLog("programUpdate")
    /\ Len(submitted) = 2
    /\ call.mode # before.passed.mode
    /\ \E k \in 1..Len(submitted) : submitted[k] # ExpectedTarget

C11_JsonPrecedence ==
    merged.present =>
        /\ \A k \in (DOMAIN merged.json.dict) \cap (DOMAIN merged.metadata) :
              merged.out[k] = merged.json.dict[k]
        /\ \A k \in DOMAIN merged.out : merged.out[k][1] = "ipx" => k = "ipx_module"

C15_HostSignals ==
    (op = "refresh" /\ pc = "done" /\ result \in ClientErrors) =>
        /\ host_signal \in {"ConfigEntryAuthFailed", "UpdateFailed"}
        /\ (host_signal = "ConfigEntryAuthFailed") <=> (result = "AuthenticationError")

C15_Witness ==
    /\ op = "refresh" /\ pc = "done"
    /\ result = "AuthenticationError"
    /\ host_signal = "ConfigEntryAuthFailed"

\* A request() has ended inside the re-login it started.
LoginFailed_ == pc = "returned" /\ req.phase \in {"loginGet", "loginPost"}

\* C16 as stated: a re-login that fails on a response of the portal ends the
\* request with an AuthenticationError, the original request not sent again.
C16_AsStated ==
    (LoginFailed_ /\ req.last.kind = "response")
        => (req.outcome = "AuthenticationError" /\ req.nSend = 1)

\* C16 (amended): a credentials POST answered with a status other than 200
\* or 302 ends the request with an AuthenticationError; a re-login that
\* fails on the login page GET or on a connection error ends it with a
\* CommunicationError; after a failed login the request is not sent again.
C16_LoginFailure ==
    LoginFailed_ =>
        /\ req.nSend = 1
        /\ (req.phase = "loginPost" /\ req.last.kind = "response")
              => req.outcome = "AuthenticationError"
        /\ (req.phase = "loginGet" /\ req.last.kind = "response")
              => req.outcome = "CommunicationError"
        /\ req.last.kind = "clientError" => req.outcome = "CommunicationError"

C16_Witness ==
    /\ LoginFailed_
    /\ req.phase = "loginPost"
    /\ req.last.status = UNAUTHORIZED
    /\ req.outcome = "AuthenticationError"
    /\ req.nSend = 1

\* C17: after the credentials POST got a 302 or a 200, async_login has
\* returned (request() sends the original request again); after any other
\* status it has raised an AuthenticationError.
C17_LoginStatus ==
    (req.last.phase = "loginPost" /\ req.last.kind = "response") =>
        IF req.last.status \in {OK, FOUND}
        THEN req.outcome = "none" /\ req.phase = "retry" /\ pc = "await"
        ELSE req.outcome = "AuthenticationError" /\ pc = "returned"

C17_Witness ==
    /\ req.last.phase = "loginPost"
    /\ req.last.status = OK
    /\ req.phase = "retry"
    /\ pc = "await"

\* An exchange of request() (not the credentials POST) got a response with
\* a status that is not success.
NonSuccess ==
    /\ req.last.kind = "response"
    /\ req.last.phase \in {"request", "retry", "loginGet"}
    /\ req.last.status # OK

InMessage(x) == \E k \in 1..Len(req.errMsg) : req.errMsg[k] = x

\* C18 as stated: every response with a non-success status makes request()
\* raise a CommunicationError that carries the response body.
C18_AsStated ==
    NonSuccess => (req.outcome = "CommunicationError" /\ InMessage(ErrorBody))

\* C18 (amended): a response with a non-success status makes request()
\* raise a CommunicationError whose message names the status, unless it is
\* the answer to a request allowed to retry and starts the re-login; no
\* answer to a retried request or to the GET of the login page does.
C18_NonSuccessRaises ==
    NonSuccess =>
        IF req.last.phase = "request" /\ req.phase = "loginGet"
        THEN pc = "await" /\ req.outcome = "none" /\ req.nLogin = 1
        ELSE /\ pc = "returned"
             /\ req.outcome = "CommunicationError"
             /\ req.errMsg = <<"Request failed", req.last.status>>

C18_Witness ==
    /\ NonSuccess
    /\ req.last.phase = "retry"
    /\ req.last.status = FORBIDDEN
    /\ req.outcome = "CommunicationError"

\* C19 as stated: a timeout of an exchange ends the request with a
\* CommunicationError.
C19_TimeoutClassified ==
    (pc = "returned" /\ req.last.kind = "timeout") => req.outcome = "CommunicationError"

\* The way a character at a position is read: "out" outside a string,
\* "in" inside one, "esc" right after a backslash inside one.  first is the
\* position (1-based) of the opening brace.
ReadMode(txt, first) ==
    LET m[j \in first..Len(txt)] ==
            IF j = first THEN "out"
            ELSE LET before_ == m[j - 1]
                     c == txt[j - 1]
                 IN  IF before_ = "esc" THEN "in"
                     ELSE IF before_ = "in"
                     THEN (IF c = "\\" THEN "esc" ELSE IF c = "\"" THEN "out" ELSE "in")
                     ELSE (IF c = "\"" THEN "in" ELSE "out")
    IN  m

\* Opening minus closing braces read outside strings in first..e.
DepthAfter(txt, first, e) ==
    LET m == ReadMode(txt, first)
    IN  Cardinality({j \in first..e : m[j] = "out" /\ txt[j] = "{"})
        - Cardinality({j \in first..e : m[j] = "out" /\ txt[j] = "}"})

\* The balanced object that starts at first: up to the first closing brace
\* outside a string at which the depth is zero again.
BalancedObject(txt, first) ==
    LET m == ReadMode(txt, first)
        ends == {e \in first..Len(txt) :
                    m[e] = "out" /\ txt[e] = "}" /\ DepthAfter(txt, first, e) = 0}
    IN  IF ends = {} THEN NotFound
        ELSE Found(SubSeq(txt, first, CHOOSE e \in ends : \A f \in ends : e <= f))

\* C20: called on the offset of an opening brace, extract_json_object
\* returns the balanced object that starts there, and None when the text
\* ends before the braces balance.
C20_ExtractBalanced ==
    (extracted.done /\ start_index < Len(text) /\ text[start_index + 1] = "{")
        => extracted.result = BalancedObject(text, start_index + 1)

C20_Witness ==
    /\ extracted.done
    /\ start_index = 0
    /\ text = <<"{", "\"", "}", "\"", "}">>
    /\ extracted.result = Found(text)

\* The module list parse_pool_ids decodes from the page, if it decodes one.
ListedModules ==
    IF html.assign /\ html.text \in ObjectTexts /\ html.members.hasModules
    THEN html.members.modules
    ELSE <<>>
Lists(type) == \E i \in 1..Len(ListedModules) : ListedModules[i].type = type
Listed(type) ==
    ListedModules[CHOOSE i \in 1..Len(ListedModules) :
                      /\ ListedModules[i].type = type
                      /\ \A j \in 1..(i - 1) : ListedModules[j].type # type]
AfterLastHyphen(name) ==
    LET hyphens == {i \in 1..Len(name) : name[i] = "-"}
        last == CHOOSE h \in hyphens : \A j \in hyphens : j <= h
    IN  SubSeq(name, last + 1, Len(name))
Hyphenated(name) == name # None /\ \E i \in 1..Len(name) : name[i] = "-"

\* C21 as stated: when the module list holds a pool controller, discovery
\* returns the serial number of the gateway module, or of the controller
\* when there is no gateway, as address, and as relay id the part of the
\* controller's name after its last hyphen, or the last 6 characters of its
\* serial number when the name has no hyphen.
C21_ControllerIdentifiers ==
    (located.done /\ Lists("lr-pc")) =>
        LET lr_pc == Listed("lr-pc") IN
        /\ located.raised = "none"
        /\ located.pool_address =
              (IF Lists("lr-mb-10") THEN Listed("lr-mb-10").serialNumber
               ELSE lr_pc.serialNumber)
        /\ located.relay_id =
              (IF Hyphenated(lr_pc.name) THEN AfterLastHyphen(lr_pc.name)
               ELSE Last6(lr_pc.serialNumber))

NotIpx(m) == m.type # "ipx"
Identifiers(res) == <<res.raised, res.pool_address, res.relay_id>>

\* C22: without a pool controller in the list, the address is the IPX
\* module's serial number and the relay id its ipxRelay field; with a pool
\* controller in the list, discovery gives what it gives for the same list
\* without its IPX modules.
C22_IpxFallback ==
    located.done =>
        /\ (~Lists("lr-pc") /\ Lists("ipx")) =>
              /\ located.raised = "none"
              /\ located.pool_address = Listed("ipx").serialNumber
              /\ located.relay_id = Listed("ipx").ipxRelay
        /\ Lists("lr-pc") =>
              Identifiers(located) =
                  Identifiers(parse_pool_ids(
                      [html EXCEPT !.members.modules = SelectSeq(@, NotIpx)]))

C22_Witness ==
    /\ located.done
    /\ ListedModules = <<Module("ipx", SerialIpx, None, RelayR9)>>
    /\ located.pool_address = SerialIpx
    /\ located.relay_id = RelayR9
    /\ scrape_result = "stored"

PhReadings ==
    {r \in {json_data.ipx_module.inputs[i] : i \in 1..Len(json_data.ipx_module.inputs)} :
        r.type = PhInput}
JsonPh == IF "ph" \in DOMAIN json_data.root THEN json_data.root["ph"] ELSE AbsentValue

\* C24 as stated: with a root pH field and a scraped pH reading of another
\* value that has a date, sensors["ph"] has the root value and carries the
\* date as last_measurement_time; and sensors["ph"] has a scraped value only
\* when the root field is absent.
C24_JsonPhWithScrapedDate ==
    pool_data.done =>
        /\ \A r \in PhReadings :
              (JsonPh \notin {AbsentValue, NullValue} /\ r.value # JsonPh /\ r.date # "") =>
                  /\ "ph" \in DOMAIN pool_data.sensors
                  /\ pool_data.sensors["ph"].value = JsonPh
                  /\ "last_measurement_time" \in DOMAIN pool_data.sensors["ph"].extra_attributes
                  /\ pool_data.sensors["ph"].extra_attributes["last_measurement_time"] = r.date
        /\ ("ph" \in DOMAIN pool_data.sensors /\ pool_data.sensors["ph"].value # JsonPh)
              => JsonPh = AbsentValue

IsFiltration(p) == p.hasChars /\ p.programType = 4

SelectGuardsPass ==
    /\ select.seen.present
    /\ EntityModule \in DOMAIN select.seen.modules
    /\ select.seen.modules[EntityModule].filtration_program.present
    /\ select.option \in {"Off", "On", "Auto"}
OptionInteger == IF select.option = "Off" THEN 0 ELSE IF select.option = "On" THEN 1 ELSE 2
EventsOf(kind) == {k \in 1..Len(select.events) : select.events[k].kind = kind}

\* C26: selecting a filtration option calls async_set_filtration_mode once
\* with the entity's module id, the module's filtration program and the
\* integer of the option (Off 0, On 1, Auto 2), and requests the refresh
\* only after that call has returned; with an unknown option, without the
\* module in the snapshot or without a filtration program, nothing is
\* called and no refresh is requested.
C26_SelectOption ==
    select.pc # "idle" =>
        /\ SelectGuardsPass =>
              /\ Cardinality(EventsOf("set")) = 1
              /\ select.events[1] =
                    Event("set", EntityModule,
                          select.seen.modules[EntityModule].filtration_program.program,
                          OptionInteger)
        /\ ~SelectGuardsPass => select.events = <<>>
        /\ Cardinality(EventsOf("refresh")) <= 1
        /\ \A k \in EventsOf("refresh") : \E j \in EventsOf("returned") : j < k

C26_Witness ==
    /\ select.pc = "done"
    /\ select.option = "Auto"
    /\ select.events = <<Event("set", "m1", PFilt2, 2), Plain("returned"), Plain("refresh")>>

\* The client of the entry can issue requests: its first refresh runs, or
\* the coordinator is in hass.data, or the entities are set up.
ClientCanRequest == entry.pc = "first_refresh" \/ entry.registered \/ entry.platforms

\* C27 as stated: every session created by async_setup_entry is closed in
\* the end, and no session is closed while its client can issue requests.
C27_SessionClosed ==
    /\ \A i \in 1..MaxSetups :
          (Len(sessions) >= i /\ sessions[i] = "open")
              ~> (Len(sessions) >= i /\ sessions[i] = "closed")
    /\ [](\A i \in 1..Len(sessions) :
              sessions[i] = "closed" => ~(entry.session = i /\ ClientCanRequest))

\* module_programs as the running call read it from the cache.
CachedPrograms ==
    IF data.present /\ data.hasModule THEN before.dataProgs
    ELSE IF scraped_programs.present /\ scraped_programs.hasModule THEN before.scrapedProgs
    ELSE <<>>

HasMode(p) == p.hasChars /\ p.mode # ModeAbsent

SameButFlagAndMode(a, b) ==
    /\ a.id = b.id
    /\ a.hasChars = b.hasChars
    /\ a.programType = b.programType

\* C29 as stated: the list sent to program/update holds every program of
\* the module's cached list, at the same position, with every field but
\* dataChanged and mode as it is in the cache.
C29_CompleteList ==
    (op = "set" /\ InLog("programUpdate")) =>
        /\ Len(submitted) >= Len(CachedPrograms)
        /\ \A k \in 1..Len(CachedPrograms) :
              SameButFlagAndMode(submitted[k], CachedPrograms[k])

SentOf(kind) == {i \in 1..Len(sent) : sent[i].kind = kind}

\* C30: in a call the remote push carries the caller's module id and the
\* client's relay id, the module report the same module id, and the program
\* report the module id and the list that went to program/update, in which
\* the target has the id of the passed program and the requested mode.
C30_SyncPayloads ==
    op = "set" =>
        /\ \A i \in SentOf("remoteConfig") :
              sent[i].body = [moduleId |-> call.module_id, relayId |-> relay_id]
        /\ \A i \in SentOf("reportModule") : sent[i].body = [module |-> call.module_id]
        /\ \A i \in SentOf("reportPrograms") :
              /\ sent[i].body.module = call.module_id
              /\ sent[i].body.programs = submitted
              /\ \E k \in 1..Len(sent[i].body.programs) :
                    /\ sent[i].body.programs[k].id = before.passed.id
                    /\ sent[i].body.programs[k].mode = call.mode

C30_Witness ==
    /\ op = "set" /\ pc = "done" /\ result = "ok" /\ syncErr = "none"
    /\ call.module_id = ModuleId
    /\ relay_id # NoGen
    /\ SentOf("remoteConfig") # {} /\ SentOf("reportModule") # {}
    /\ SentOf("reportPrograms") # {}
    /\ Len(submitted) = 2
    /\ call.mode # before.passed.mode

\* Both primary writes returned and no synchronisation step before the
\* LoRaWAN request failed.
EarlierSyncOk ==
    primaryOk /\ (syncErr = "none" \/ (log # <<>> /\ log[Len(log)] = "lorawan"))

\* C31 as stated: a finished call has sent the LoRaWAN synchronisation
\* exactly when the module is in the snapshot with the V2 flag and every
\* earlier synchronisation step succeeded; the request is the last one of
\* the call, and the call does not raise when it fails.
C31_LorawanSync ==
    (op = "set" /\ pc = "done") =>
        /\ InLog("lorawan") <=> (LoraDue /\ EarlierSyncOk)
        /\ InLog("lorawan") => log[Len(log)] = "lorawan"
        /\ (InLog("lorawan") /\ syncErr # "none") => result = "ok"

ScrapedKeys == {"ipx_salt", "ph_setpoint", "production_setpoint", "electrolyzer_mode"}

\* C32: the snapshot has a reading under a known root key exactly when the
\* input has that field with a value other than null, the reading has the
\* field's value, and sensorState adds no reading of its own.
C32_RootSensors ==
    pool_data.done =>
        /\ \A key \in root_sensors_map :
              /\ key \in DOMAIN pool_data.sensors
                    <=> (key \in DOMAIN json_data.root /\ json_data.root[key] # NullValue)
              /\ key \in DOMAIN pool_data.sensors
                    => pool_data.sensors[key].value = json_data.root[key]
        /\ DOMAIN pool_data.sensors \subseteq root_sensors_map \cup ScrapedKeys

C32_Witness ==
    /\ pool_data.done
    /\ json_data.root = FullRoot
    /\ json_data.sensorState # <<>>
    /\ json_data.sensorState[1].value = 2550
    /\ DOMAIN pool_data.sensors = {"temperature", "ph", "redox", "salt", "chlorineRate"}
    /\ pool_data.sensors["salt"].value = 650

\* The field of the scraped IPX data a reading is made from, and its value
\* in the input (AbsentValue when any step to it is missing).
WantedField(key) ==
    CASE key = "ipx_salt" -> <<2, "saltValue">>
      [] key = "ph_setpoint" -> <<1, "pHSetpoint">>
      [] key = "production_setpoint" -> <<2, "percentageSetpoint">>
      [] key = "electrolyzer_mode" -> <<2, "electrolyzerMode">>
Wanted(key) ==
    LET ipx == json_data.ipx_module
        at == WantedField(key)
    IN  IF ipx.present /\ ipx.hasOutputs /\ Len(ipx.outputs) >= at[1]
           /\ ipx.outputs[at[1]].ipxData
        THEN ipx.outputs[at[1]][at[2]]
        ELSE AbsentValue

\* C33: parse_data does not raise over the scraped IPX data; each of the
\* four readings is in the snapshot exactly when its field can be reached,
\* with the field's value, and the root readings are there as without it.
C33_ScrapedIpxTolerant ==
    pool_data.done =>
        /\ pool_data.raised = "none"
        /\ \A key \in ScrapedKeys :
              /\ key \in DOMAIN pool_data.sensors <=> Wanted(key) # AbsentValue
              /\ key \in DOMAIN pool_data.sensors
                    => pool_data.sensors[key].value = Wanted(key)
        /\ \A key \in root_sensors_map :
              key \in DOMAIN pool_data.sensors
                 <=> (key \in DOMAIN json_data.root /\ json_data.root[key] # NullValue)

C33_Witness ==
    /\ pool_data.done
    /\ json_data.ipx_module.present
    /\ Len(json_data.ipx_module.outputs) = 1
    /\ "ph_setpoint" \in DOMAIN pool_data.sensors
    /\ "ipx_salt" \notin DOMAIN pool_data.sensors
    /\ "ph" \in DOMAIN pool_data.sensors

\* C34: when a synchronisation request of the call has failed, the call
\* ends without another request; with mode OFF and a failure of the push
\* or of a report, the stop command is not in the call's requests.
C34_SyncFailureEndsSync ==
    [][(op = "set" /\ pc = "returned" /\ req.kind \in SyncKinds /\ req.outcome # "ok")
         => /\ pc' = "done"
            /\ log' = log
            /\ log[Len(log)] = req.kind
            /\ ((call.mode = 0
                    /\ req.kind \in {"remoteConfig", "reportModule", "reportPrograms"})
                  => ~InLog("remoteControl"))]_vars

C34_Witness ==
    /\ op = "set" /\ pc = "done" /\ primaryOk
    /\ call.mode = 0
    /\ SerialKnown
    /\ syncErr = "CommunicationError"
    /\ log[Len(log)] = "reportModule"
    /\ ~InLog("remoteControl")

\* Positions of the submitted list that hold the updated target.
TargetPositions == {k \in 1..Len(submitted) : submitted[k] = ExpectedTarget}

\* C35 as stated: whatever the cached list is, the list sent to
\* program/update holds the updated target exactly once.
C35_TargetOnce ==
    (op = "set" /\ InLog("programUpdate")) => Cardinality(TargetPositions) = 1

\* The step in which a refresh ends with an error before its status GET.
DiscoveryFails ==
    /\ op = "refresh" /\ pc = "returned" /\ req.kind = "devices"
    /\ pc' = "done" /\ result' # "ok"

C37_NoSessionInvalidBody ==
    (pc = "returned" /\ req.outcome = "ok") =>
        /\ req.last.status \notin {UNAUTHORIZED, FORBIDDEN}
        /\ body # LoginPage

\* C39: a call of a client without relay id sends the two primary writes
\* and nothing else, and returns normally once both have succeeded.
C39_NoRelayNoSync ==
    (op = "set" /\ relay_id = NoGen) =>
        /\ \A k \in 1..Len(log) : log[k] \in PrimaryKinds
        /\ sent = <<>>
        /\ (pc = "done" /\ primaryOk)
              => (result = "ok" /\ log = <<"moduleUpdate", "programUpdate">>)
        /\ (pc = "done" /\ before.passed.hasChars /\ ~primaryOk) => result # "ok"

C39_Witness ==
    /\ op = "set" /\ pc = "done" /\ relay_id = NoGen
    /\ call.mode = 0
    /\ result = "ok"
    /\ log = <<"moduleUpdate", "programUpdate">>
    /\ submitted # <<>>

\* C38 as stated: in a call that ran beside a refresh, the relay id of the
\* push and the program list and name of the primary writes were stored by
\* the same refresh cycle.
C38_SameRefreshCycle ==
    (race.set.pc \in {"remoteConfig", "done"} /\ race.set.relay_id # ""
        /\ race.set.programs_cycle # 0 /\ race.set.overlapped)
        => race.set.relay_cycle = race.set.programs_cycle

====
